---- MODULE Spec2Model ----
(***************************************************************************)
(* The tiered cache and click-count aggregation layer of surl:             *)
(*   cache.Manager (src/cache/cache.go) - record cache over a Local tier    *)
(*   (memCache) and a Remote tier (Redis), plus the click counters;         *)
(*   URLService.SyncClickCounts / StartClickCountSync                       *)
(*   (src/services/url_service.go) - the aggregation loop.                  *)
(* Every goroutine is a task with a program counter; one action is one      *)
(* atomic step of the code (a Remote round trip, a critical section).       *)
(***************************************************************************)
EXTENDS Integers, FiniteSets, Sequences, Bags, TLC

\* ---------------------------------------------------------------- bounds
MaxClicks == 2     \* IncrementClick calls in one behaviour
MaxCycles == 2     \* ticks of the aggregation loop in one behaviour
MaxOps == 2        \* GetURL / SetURL / DeleteURL calls in one behaviour
MaxSvc == 2        \* URLService calls in one behaviour

Codes == {"a", "b"}
Targets == {1, 2}

\* ------------------------------------------------------------- records
\* models.URL, reduced to the fields the cache layer can tell apart.
\* DeletedAt is 0 (the zero gorm.DeletedAt) in every record handed to SetURL:
\* the callers pass rows they created or re-read with First/Find, and gorm
\* filters soft-deleted rows out of those.
URL == [OriginalURL : Targets, IsActive : {TRUE}, DeletedAt : {0}]

\* var url models.URL - the zero value json.Unmarshal starts from.
ZeroURL == [OriginalURL |-> 0, IsActive |-> FALSE, DeletedAt |-> 0]

\* The nil *models.URL that GetURL returns with found = false.
NilURL == [OriginalURL |-> -1, IsActive |-> FALSE, DeletedAt |-> 0]

\* A Remote payload is a string; json says whether it parses as a models.URL.
\* Malformed is a payload that does not.
Malformed == [json |-> FALSE, original_url |-> 0, is_active |-> FALSE]

\* json.Marshal(url): DeletedAt carries the tag json:"-" and is left out.
Marshal(url) ==
    [json |-> TRUE, original_url |-> url.OriginalURL, is_active |-> url.IsActive]

\* Mutant of UnmarshalErr: the error of json.Unmarshal is ignored.
UnmarshalErrIgnored(val) == FALSE

\* json.Unmarshal(val, &url) returns a non-nil error.
UnmarshalErr(val) == ~val.json

\* The url variable after json.Unmarshal: the decoded fields over the zero
\* value (DeletedAt is never decoded); the zero value when decoding failed.
Unmarshal(val) ==
    IF ~val.json THEN ZeroURL
    ELSE [OriginalURL |-> val.original_url, IsActive |-> val.is_active, DeletedAt |-> 0]

\* Go maps and key-value stores as functions over the keys present.
Put(m, k, v) == [x \in DOMAIN m \cup {k} |-> IF x = k THEN v ELSE m[x]]
Drop(m, k) == [x \in DOMAIN m \ {k} |-> m[x]]
Empty == [x \in {} |-> 0]

Payloads == {Marshal(u) : u \in URL} \cup {Malformed}

\* Mutant of URLKey: the short code is left out of the key.
URLKeyShared(shortCode) == "a"

\* key := fmt.Sprintf("url:%s", shortCode): one key per short code.
URLKey(shortCode) == shortCode

VARIABLES
    \* --- cache.Manager
    useRedis,        \* Manager.useRedis
    memCache,        \* Local tier: the keys present -> *models.URL
    redisURL,        \* Remote tier, url:* keys: the keys present -> payload
    redisClicks,     \* Remote tier, clicks:* keys: code -> count (0: no key)
    memClickCounts,  \* Manager.memClickCounts (0: no entry)
    memClickMutex,   \* Manager.memClickMutex: TRUE while write-locked
    \* --- tasks
    inc,             \* the live goroutines of IncrementClick, a bag of [pc, code, tmp]
    calls,           \* IncrementClick calls so far
    sync,            \* the goroutine of StartClickCountSync
    reset,           \* the tasks inside GetAndResetClicks, a bag of [pc, code, count]
    peer,            \* the goroutine of StartClickCountSync in another process
                     \* of the prefork group
    ctask,           \* the tasks inside GetURL / SetURL / DeleteURL, a bag of records
    ops,             \* cache calls so far
    alive,           \* the process runs (main has not returned)
    stask,           \* the tasks inside the methods of URLService, a bag of records
    svcOps,          \* URLService calls so far
    svcOverlap,      \* history: two URLService calls were in progress together
    \* --- Record Store
    db,              \* table urls: short code -> row, for the codes that have one
    click_count,     \* urls.click_count by short code
    \* --- history (read by the properties only)
    done,            \* completed IncrementClick goroutines, by code
    sinceDrain,      \* of those, the ones completed since the last cycle ended
    overlap,         \* an increment task and a sync cycle were in progress together
    raced,           \* two increment goroutines of one code were live together
    dropped,         \* drained counts whose update of the Record Store failed, by code
    fault,           \* "none", "fallback" (compensated by the code) or "lossy"
    cycles,          \* completed SyncClickCounts runs
    fresh,           \* code -> the record of the last undisturbed SetURL, where there is one
    everSet,         \* codes a SetURL was called for, by this process or by an
                     \* earlier writer of the Remote tier
    timer            \* per tier and code: the time left of the entry's expiry
                     \* (mem, redis) and, history, the time since the entry was
                     \* last written (memAge, redisAge)

cacheVars == <<memCache, redisURL, ctask, ops, fresh, everSet, timer>>
clickVars == <<redisClicks, memClickCounts, memClickMutex, inc, calls, sync, reset, peer,
               click_count, done, sinceDrain, overlap, raced, dropped, fault,
               cycles>>
svcVars == <<db, stask, svcOps, svcOverlap>>
envVars == <<useRedis, alive, svcVars>>
vars == <<cacheVars, clickVars, envVars>>

\* A call to the Remote tier either succeeds or fails (a timeout, a refused
\* or dropped connection): each call below has an Ok and a Fail action.

\* ---------------------------------------------------------- click counters
\* History: the worse of two fault classes.
Worse(f, g) ==
    IF f = "lossy" \/ g = "lossy" THEN "lossy"
    ELSE IF f = "fallback" \/ g = "fallback" THEN "fallback" ELSE "none"

\* History: some goroutine of IncrementClick is between its spawn and its end.
IncInFlight == inc /= EmptyBag

\* One task of a bag moves from state r to state q; one task ends.
Move(bag, r, q) == (bag (-) SetToBag({r})) (+) SetToBag({q})
End(bag, r) == bag (-) SetToBag({r})

\* History bookkeeping of a step of an increment goroutine.
IncHistory == overlap' = (overlap \/ sync.pc /= "idle")

\* History bookkeeping of the end of an increment goroutine.
IncDone(c) ==
    /\ done' = [done EXCEPT ![c] = @ + 1]
    /\ sinceDrain' = [sinceDrain EXCEPT ![c] = @ + 1]

\* Mutant of MutexFree: the counter map is used without the mutex.
MutexIgnored == TRUE

\* sync.RWMutex: Lock() and RLock() return once no writer holds the mutex
\* (the model has one reader, whose read section is a single step).
MutexFree == ~memClickMutex

\* Mutant of IncrementClick: the body runs in the caller, which returns once
\* it has had memClickMutex.
IncrementClickInline(shortCode) ==
    /\ calls < MaxClicks
    /\ MutexFree
    /\ inc' = inc (+) SetToBag({[pc |-> "go", code |-> shortCode, tmp |-> 0]})
    /\ calls' = calls + 1
    /\ raced' = (raced \/ \E r \in BagToSet(inc) : r.code = shortCode)
    /\ IncHistory
    /\ UNCHANGED <<peer, reset, dropped, redisClicks, memClickCounts, memClickMutex, sync,
                   click_count, done, sinceDrain, fault, cycles, cacheVars, envVars>>

\* go func() { ... }() of IncrementClick: the goroutine starts, nothing else
\* of the counters changes.
Spawn(shortCode) ==
    /\ inc' = inc (+) SetToBag({[pc |-> "go", code |-> shortCode, tmp |-> 0]})
    /\ calls' = calls + 1
    /\ raced' = (raced \/ \E r \in BagToSet(inc) : r.code = shortCode)
    /\ IncHistory
    /\ UNCHANGED <<peer, reset, dropped, redisClicks, memClickCounts, memClickMutex, sync, click_count,
                   done, sinceDrain, fault, cycles>>

\* IncrementClick: go func() { ... }() - the caller returns at once.
IncrementClick(shortCode) ==
    /\ calls < MaxClicks
    /\ Spawn(shortCode)
    /\ UNCHANGED <<cacheVars, envVars>>

\* c.redisClient.Incr(c.ctx, key) with err == nil.
GoIncrOk(r) ==
    /\ r.pc = "go" /\ useRedis
    /\ redisClicks' = [redisClicks EXCEPT ![r.code] = @ + 1]
    /\ inc' = Move(inc, r, [r EXCEPT !.pc = "expire"])
    /\ IncHistory
    /\ UNCHANGED <<peer, reset, dropped, raced, memClickCounts, memClickMutex, calls, sync, click_count,
                   done, sinceDrain, fault, cycles, cacheVars, envVars>>

\* Mutant of GoIncrFail: the error is logged and the goroutine ends without
\* the fallback to the memory counter.
GoIncrFailDropped(r) ==
    /\ r.pc = "go" /\ useRedis
    /\ inc' = End(inc, r)
    /\ IncDone(r.code)
    /\ fault' = Worse(fault, "fallback")
    /\ IncHistory
    /\ UNCHANGED <<peer, reset, dropped, raced, redisClicks, memClickCounts, memClickMutex, calls, sync,
                   click_count, cycles, cacheVars, envVars>>

\* Incr with err != nil, nothing done on the server: fall back to memory.
GoIncrFail(r) ==
    /\ r.pc = "go" /\ useRedis
    /\ inc' = Move(inc, r, [r EXCEPT !.pc = "fallback"])
    /\ fault' = Worse(fault, "fallback")
    /\ IncHistory
    /\ UNCHANGED <<peer, reset, dropped, raced, redisClicks, memClickCounts, memClickMutex, calls, sync,
                   click_count, done, sinceDrain, cycles, cacheVars, envVars>>

\* Incr reaches the server, the connection drops before the reply: the
\* server has incremented, the client sees err != nil and falls back.
GoIncrLost(r) ==
    /\ r.pc = "go" /\ useRedis
    /\ redisClicks' = [redisClicks EXCEPT ![r.code] = @ + 1]
    /\ inc' = Move(inc, r, [r EXCEPT !.pc = "fallback"])
    /\ fault' = "lossy"
    /\ IncHistory
    /\ UNCHANGED <<peer, reset, dropped, raced, memClickCounts, memClickMutex, calls, sync, click_count,
                   done, sinceDrain, cycles, cacheVars, envVars>>

\* c.redisClient.Expire(c.ctx, key, 24*time.Hour) with err == nil; the goroutine ends.
ExpireOk(r) ==
    /\ r.pc = "expire"
    /\ inc' = End(inc, r)
    /\ IncDone(r.code)
    /\ IncHistory
    /\ UNCHANGED <<peer, reset, dropped, raced, redisClicks, memClickCounts, memClickMutex, calls, sync,
                   click_count, fault, cycles, cacheVars, envVars>>

\* Mutant of ExpireFail: the failed Expire is treated like a failed Incr and
\* the goroutine goes on to the memory counter.
ExpireFailFallback(r) ==
    /\ r.pc = "expire"
    /\ inc' = Move(inc, r, [r EXCEPT !.pc = "fallback"])
    /\ fault' = Worse(fault, "fallback")
    /\ IncHistory
    /\ UNCHANGED <<peer, reset, dropped, raced, redisClicks, memClickCounts, memClickMutex, calls, sync,
                   click_count, done, sinceDrain, cycles, cacheVars, envVars>>

\* Expire with err != nil: logged, no fallback; the goroutine ends.
ExpireFail(r) ==
    /\ r.pc = "expire"
    /\ inc' = End(inc, r)
    /\ IncDone(r.code)
    /\ fault' = Worse(fault, "fallback")
    /\ IncHistory
    /\ UNCHANGED <<peer, reset, dropped, raced, redisClicks, memClickCounts, memClickMutex, calls, sync,
                   click_count, cycles, cacheVars, envVars>>

\* incrementMemoryClick: c.memClickMutex.Lock(), then the load of
\* c.memClickCounts[shortCode]++ (reached after a failed Incr, or at once
\* when useRedis is false).
MemLock(r) ==
    /\ \/ r.pc = "fallback"
       \/ r.pc = "go" /\ ~useRedis
    /\ MutexFree
    /\ memClickMutex' = TRUE
    /\ inc' = Move(inc, r, [r EXCEPT !.pc = "locked", !.tmp = memClickCounts[r.code]])
    /\ IncHistory
    /\ UNCHANGED <<peer, reset, dropped, raced, redisClicks, memClickCounts, calls, sync, click_count,
                   done, sinceDrain, fault, cycles, cacheVars, envVars>>

\* The store of c.memClickCounts[shortCode]++ and the deferred Unlock().
MemUnlock(r) ==
    /\ r.pc = "locked"
    /\ memClickCounts' = [memClickCounts EXCEPT ![r.code] = r.tmp + 1]
    /\ memClickMutex' = FALSE
    /\ inc' = End(inc, r)
    /\ IncDone(r.code)
    /\ IncHistory
    /\ UNCHANGED <<peer, reset, dropped, raced, redisClicks, calls, sync, click_count, fault, cycles,
                   cacheVars, envVars>>

\* ------------------------------------------------------- aggregation loop
\* The clicks:* keys a SCAN returns.
ClickKeys == {c \in Codes : redisClicks[c] > 0}

\* Mutant of MergeMemory: results[shortCode] = count.
MergeMemoryOverwrite(results) ==
    [c \in DOMAIN results \cup {x \in Codes : memClickCounts[x] > 0} |->
        IF memClickCounts[c] > 0 THEN memClickCounts[c] ELSE results[c]]

\* results[shortCode] += count for every entry of memClickCounts.
MergeMemory(results) ==
    [c \in DOMAIN results \cup {x \in Codes : memClickCounts[x] > 0} |->
        (IF c \in DOMAIN results THEN results[c] ELSE 0) + memClickCounts[c]]

\* Mutant of ApplyIncrement: SET click_count = count.
ApplyOverwrite(shortCode, count) ==
    [click_count EXCEPT ![shortCode] = count]

\* UPDATE urls SET click_count = click_count + count WHERE short_code = shortCode.
ApplyIncrement(shortCode, count) ==
    [click_count EXCEPT ![shortCode] = @ + count]

\* Mutant of Tick: GetAllClickCounts issues the SCAN without testing useRedis.
TickAlwaysScan ==
    /\ sync.pc = "idle" /\ cycles < MaxCycles
    /\ sync' = [pc |-> "scan", keys |-> {}, results |-> Empty, todo |-> {}]
    /\ overlap' = (overlap \/ IncInFlight)
    /\ UNCHANGED <<peer, reset, dropped, raced, redisClicks, memClickCounts, memClickMutex, inc, calls,
                   click_count, done, sinceDrain, fault, cycles, cacheVars, envVars>>

\* case <-ticker.C: s.SyncClickCounts() starts; GetAllClickCounts makes its
\* results map and, when useRedis, issues the SCAN.
Tick ==
    /\ sync.pc = "idle" /\ cycles < MaxCycles
    /\ sync' = [pc |-> IF useRedis THEN "scan" ELSE "get",
                keys |-> {}, results |-> Empty, todo |-> {}]
    /\ overlap' = (overlap \/ IncInFlight)
    /\ UNCHANGED <<peer, reset, dropped, raced, redisClicks, memClickCounts, memClickMutex, inc, calls,
                   click_count, done, sinceDrain, fault, cycles, cacheVars, envVars>>

\* GetAllClickCounts: Scan(ctx, 0, "clicks:*", 0).Iterator() returns the keys.
ScanOk ==
    /\ sync.pc = "scan"
    /\ sync' = [sync EXCEPT !.pc = "get", !.keys = ClickKeys]
    /\ UNCHANGED <<peer, reset, dropped, raced, redisClicks, memClickCounts, memClickMutex, inc, calls,
                   click_count, done, sinceDrain, overlap, fault, cycles,
                   cacheVars, envVars>>

\* The SCAN fails: iter.Next is false, iter.Err is logged.
ScanFail ==
    /\ sync.pc = "scan"
    /\ sync' = [sync EXCEPT !.pc = "get", !.keys = {}]
    /\ fault' = "lossy"
    /\ UNCHANGED <<peer, reset, dropped, raced, redisClicks, memClickCounts, memClickMutex, inc, calls,
                   click_count, done, sinceDrain, overlap, cycles, cacheVars, envVars>>

\* One turn of the loop: Get(ctx, key) with err == nil (redis.Nil, an error,
\* when the key is gone), ParseInt, results[shortCode] = count.
GetOk(c) ==
    /\ sync.pc = "get" /\ c \in sync.keys
    /\ sync' = [sync EXCEPT
                  !.keys = @ \ {c},
                  !.results = IF redisClicks[c] > 0 THEN Put(@, c, redisClicks[c]) ELSE @]
    /\ UNCHANGED <<peer, reset, dropped, raced, redisClicks, memClickCounts, memClickMutex, inc, calls,
                   click_count, done, sinceDrain, overlap, fault, cycles,
                   cacheVars, envVars>>

\* One turn of the loop with err != nil: the key is skipped.
GetFail(c) ==
    /\ sync.pc = "get" /\ c \in sync.keys
    /\ sync' = [sync EXCEPT !.keys = @ \ {c}]
    /\ fault' = "lossy"
    /\ UNCHANGED <<peer, reset, dropped, raced, redisClicks, memClickCounts, memClickMutex, inc, calls,
                   click_count, done, sinceDrain, overlap, cycles, cacheVars, envVars>>

\* RLock, merge of memClickCounts, RUnlock; GetAllClickCounts returns and
\* SyncClickCounts starts ranging over the map.
Merge ==
    /\ sync.pc = "get" /\ sync.keys = {}
    /\ MutexFree
    /\ sync' = [sync EXCEPT !.pc = "apply",
                            !.results = MergeMemory(@),
                            !.todo = DOMAIN MergeMemory(sync.results)]
    /\ UNCHANGED <<peer, reset, dropped, raced, redisClicks, memClickCounts, memClickMutex, inc, calls,
                   click_count, done, sinceDrain, overlap, fault, cycles,
                   cacheVars, envVars>>

\* Mutant of ApplyOk: the UPDATE has no WHERE short_code = ? and adds the
\* count to every record.
ApplyOkEveryRow(c) ==
    /\ sync.pc = "apply" /\ c \in sync.todo
    /\ click_count' = [d \in Codes |-> click_count[d] + sync.results[c]]
    /\ sync' = [sync EXCEPT !.todo = @ \ {c}]
    /\ UNCHANGED <<peer, reset, dropped, raced, redisClicks, memClickCounts, memClickMutex, inc, calls,
                   done, sinceDrain, overlap, fault, cycles, cacheVars, envVars>>

\* One turn of the range loop of SyncClickCounts, the update succeeds.
ApplyOk(c) ==
    /\ sync.pc = "apply" /\ c \in sync.todo
    /\ click_count' = ApplyIncrement(c, sync.results[c])
    /\ sync' = [sync EXCEPT !.todo = @ \ {c}]
    /\ UNCHANGED <<peer, reset, dropped, raced, redisClicks, memClickCounts, memClickMutex, inc, calls,
                   done, sinceDrain, overlap, fault, cycles, cacheVars, envVars>>

\* Mutant of ApplyFail: the error ends the range loop (break).
ApplyFailBreak(c) ==
    /\ sync.pc = "apply" /\ c \in sync.todo
    /\ sync' = [sync EXCEPT !.todo = {}]
    /\ dropped' = [dropped EXCEPT ![c] = @ + sync.results[c]]
    /\ fault' = "lossy"
    /\ UNCHANGED <<peer, reset, raced, redisClicks, memClickCounts, memClickMutex, inc, calls,
                   click_count, done, sinceDrain, overlap, cycles, cacheVars, envVars>>

\* Mutant of ApplyFail: the error ends the goroutine of the loop (return).
ApplyFailReturn(c) ==
    /\ sync.pc = "apply" /\ c \in sync.todo
    /\ sync' = [sync EXCEPT !.pc = "returned", !.todo = {}]
    /\ dropped' = [dropped EXCEPT ![c] = @ + sync.results[c]]
    /\ fault' = "lossy"
    /\ UNCHANGED <<peer, reset, raced, redisClicks, memClickCounts, memClickMutex, inc, calls,
                   click_count, done, sinceDrain, overlap, cycles, cacheVars, envVars>>

\* One turn with err != nil: printed, the loop goes on.
ApplyFail(c) ==
    /\ sync.pc = "apply" /\ c \in sync.todo
    /\ sync' = [sync EXCEPT !.todo = @ \ {c}]
    /\ dropped' = [dropped EXCEPT ![c] = @ + sync.results[c]]
    /\ fault' = "lossy"
    /\ UNCHANGED <<peer, reset, raced, redisClicks, memClickCounts, memClickMutex, inc, calls,
                   click_count, done, sinceDrain, overlap, cycles, cacheVars, envVars>>

\* ClearClickCounts: the SCAN collects the keys; Del follows when there are any.
ClearScanOk ==
    /\ sync.pc = "apply" /\ sync.todo = {} /\ useRedis
    /\ sync' = [sync EXCEPT !.pc = IF ClickKeys /= {} THEN "del" ELSE "clear",
                            !.keys = ClickKeys]
    /\ UNCHANGED <<peer, reset, dropped, raced, redisClicks, memClickCounts, memClickMutex, inc, calls,
                   click_count, done, sinceDrain, overlap, fault, cycles,
                   cacheVars, envVars>>

\* The SCAN fails: keys stays empty, no Del is issued.
ClearScanFail ==
    /\ sync.pc = "apply" /\ sync.todo = {} /\ useRedis
    /\ sync' = [sync EXCEPT !.pc = "clear", !.keys = {}]
    /\ fault' = "lossy"
    /\ UNCHANGED <<peer, reset, dropped, raced, redisClicks, memClickCounts, memClickMutex, inc, calls,
                   click_count, done, sinceDrain, overlap, cycles, cacheVars, envVars>>

\* c.redisClient.Del(c.ctx, keys...) with err == nil.
DelOk ==
    /\ sync.pc = "del"
    /\ redisClicks' = [c \in Codes |-> IF c \in sync.keys THEN 0 ELSE redisClicks[c]]
    /\ sync' = [sync EXCEPT !.pc = "clear", !.keys = {}]
    /\ UNCHANGED <<peer, reset, dropped, raced, memClickCounts, memClickMutex, inc, calls, click_count,
                   done, sinceDrain, overlap, fault, cycles, cacheVars, envVars>>

\* Del with err != nil: logged.
DelFail ==
    /\ sync.pc = "del"
    /\ sync' = [sync EXCEPT !.pc = "clear", !.keys = {}]
    /\ fault' = "lossy"
    /\ UNCHANGED <<peer, reset, dropped, raced, redisClicks, memClickCounts, memClickMutex, inc, calls,
                   click_count, done, sinceDrain, overlap, cycles, cacheVars, envVars>>

\* Mutant of ClearLocal: the memory counters are left as they are.
ClearLocalKeep ==
    /\ \/ sync.pc = "clear"
       \/ sync.pc = "apply" /\ sync.todo = {} /\ ~useRedis
    /\ MutexFree
    /\ sync' = [sync EXCEPT !.pc = "idle"]
    /\ cycles' = cycles + 1
    /\ sinceDrain' = [c \in Codes |-> 0]
    /\ UNCHANGED <<peer, reset, dropped, raced, memClickCounts, redisClicks, memClickMutex, inc,
                   calls, click_count, done, overlap, fault, cacheVars, envVars>>

\* Lock, c.memClickCounts = make(map[string]int64), Unlock; SyncClickCounts
\* returns and the loop waits for the next tick.
ClearLocal ==
    /\ \/ sync.pc = "clear"
       \/ sync.pc = "apply" /\ sync.todo = {} /\ ~useRedis
    /\ MutexFree
    /\ memClickCounts' = [c \in Codes |-> 0]
    /\ sync' = [sync EXCEPT !.pc = "idle"]
    /\ cycles' = cycles + 1
    /\ sinceDrain' = [c \in Codes |-> 0]
    /\ UNCHANGED <<peer, reset, dropped, raced, redisClicks, memClickMutex, inc, calls, click_count, done,
                   overlap, fault, cacheVars, envVars>>

\* ---------------------------------------------------- GetAndResetClicks
\* Calls of GetAndResetClicks in progress together.
MaxResets == 1

\* Mutant of GetAndResetClicks: memClickMutex.Lock() comes first, before
\* the GetDel.
GetAndResetClicksLockFirst(shortCode) ==
    /\ BagCardinality(reset) < MaxResets
    /\ MutexFree
    /\ memClickMutex' = TRUE
    /\ reset' = reset (+) SetToBag({[pc |-> IF useRedis THEN "getdel" ELSE "locked",
                                     code |-> shortCode, count |-> 0]})
    /\ UNCHANGED <<peer, dropped, raced, redisClicks, memClickCounts, inc, calls, sync,
                   click_count, done, sinceDrain, overlap, fault, cycles,
                   cacheVars, envVars>>

\* GetAndResetClicks: var count int64; when useRedis the GetDel is issued,
\* otherwise the call goes on to memClickMutex.Lock().
GetAndResetClicks(shortCode) ==
    /\ BagCardinality(reset) < MaxResets
    /\ reset' = reset (+) SetToBag({[pc |-> IF useRedis THEN "getdel" ELSE "lock",
                                     code |-> shortCode, count |-> 0]})
    /\ UNCHANGED <<peer, dropped, raced, redisClicks, memClickCounts, memClickMutex, inc, calls,
                   sync, click_count, done, sinceDrain, overlap, fault, cycles,
                   cacheVars, envVars>>

\* GetDel(ctx, key) with err == nil: count += redisCount, the key is gone.
GetDelOk(r) ==
    /\ r.pc = "getdel" /\ redisClicks[r.code] > 0
    /\ redisClicks' = [redisClicks EXCEPT ![r.code] = 0]
    /\ reset' = Move(reset, r, [r EXCEPT !.pc = "lock", !.count = redisClicks[r.code]])
    /\ UNCHANGED <<peer, dropped, raced, memClickCounts, memClickMutex, inc, calls, sync,
                   click_count, done, sinceDrain, overlap, fault, cycles,
                   cacheVars, envVars>>

\* GetDel with err != nil (redis.Nil when there is no key): count stays 0.
GetDelFail(r) ==
    /\ r.pc = "getdel"
    /\ reset' = Move(reset, r, [r EXCEPT !.pc = "lock"])
    /\ UNCHANGED <<peer, dropped, raced, redisClicks, memClickCounts, memClickMutex, inc, calls,
                   sync, click_count, done, sinceDrain, overlap, fault, cycles,
                   cacheVars, envVars>>

\* c.memClickMutex.Lock() of GetAndResetClicks.
ResetLock(r) ==
    /\ r.pc = "lock"
    /\ MutexFree
    /\ memClickMutex' = TRUE
    /\ reset' = Move(reset, r, [r EXCEPT !.pc = "locked"])
    /\ UNCHANGED <<peer, dropped, raced, redisClicks, memClickCounts, inc, calls, sync,
                   click_count, done, sinceDrain, overlap, fault, cycles,
                   cacheVars, envVars>>

\* memCount := c.memClickCounts[shortCode]; delete(...); Unlock(); the call
\* returns count + memCount.
ResetUnlock(r) ==
    /\ r.pc = "locked"
    /\ memClickCounts' = [memClickCounts EXCEPT ![r.code] = 0]
    /\ memClickMutex' = FALSE
    /\ reset' = End(reset, r)
    /\ UNCHANGED <<peer, dropped, raced, redisClicks, inc, calls, sync, click_count, done,
                   sinceDrain, overlap, fault, cycles, cacheVars, envVars>>

ResetStep ==
    \/ \E c \in Codes : GetAndResetClicks(c)
    \/ \E r \in BagToSet(reset) :
          GetDelOk(r) \/ GetDelFail(r) \/ ResetLock(r) \/ ResetUnlock(r)

\* ------------------------------------------------------ prefork group
\* fiber.Config{Prefork: true}: app.Listen starts the binary again as child
\* processes, and each of them runs main from its first line, so every
\* process of the group has executed go urlService.StartClickCountSync().
\* The processes share the Remote tier and the Record Store; each has its
\* own memory counters (those of the peer stay empty here: the requests of
\* these behaviours are served by this process).

\* case <-ticker.C in the peer: s.SyncClickCounts() starts.
PeerTick ==
    /\ peer.pc = "idle" /\ peer.cycles < MaxCycles
    /\ peer' = [peer EXCEPT !.pc = IF useRedis THEN "scan" ELSE "get",
                            !.keys = {}, !.results = Empty, !.todo = {}]
    /\ UNCHANGED <<dropped, raced, redisClicks, memClickCounts, memClickMutex, inc, calls,
                   sync, reset, click_count, done, sinceDrain, overlap, fault, cycles,
                   cacheVars, envVars>>

\* GetAllClickCounts in the peer: the SCAN returns the keys, or fails.
PeerScan ==
    /\ peer.pc = "scan"
    /\ \E keys \in {ClickKeys, {}} : peer' = [peer EXCEPT !.pc = "get", !.keys = keys]
    /\ UNCHANGED <<dropped, raced, redisClicks, memClickCounts, memClickMutex, inc, calls,
                   sync, reset, click_count, done, sinceDrain, overlap, fault, cycles,
                   cacheVars, envVars>>

\* One turn of the Get loop in the peer: the count is kept, or the key is
\* skipped (err != nil, redis.Nil included).
PeerGet(c) ==
    /\ peer.pc = "get" /\ c \in peer.keys
    /\ \E ok \in BOOLEAN :
          peer' = [peer EXCEPT
                     !.keys = @ \ {c},
                     !.results = IF ok /\ redisClicks[c] > 0
                                 THEN Put(@, c, redisClicks[c]) ELSE @]
    /\ UNCHANGED <<dropped, raced, redisClicks, memClickCounts, memClickMutex, inc, calls,
                   sync, reset, click_count, done, sinceDrain, overlap, fault, cycles,
                   cacheVars, envVars>>

\* The merge of the peer's (empty) memClickCounts; SyncClickCounts starts
\* ranging over the map.
PeerMerge ==
    /\ peer.pc = "get" /\ peer.keys = {}
    /\ peer' = [peer EXCEPT !.pc = "apply", !.todo = DOMAIN peer.results]
    /\ UNCHANGED <<dropped, raced, redisClicks, memClickCounts, memClickMutex, inc, calls,
                   sync, reset, click_count, done, sinceDrain, overlap, fault, cycles,
                   cacheVars, envVars>>

\* One turn of the range loop in the peer: the update is applied, or fails
\* and is printed.
PeerApply(c) ==
    /\ peer.pc = "apply" /\ c \in peer.todo
    /\ \E ok \in BOOLEAN :
          click_count' = IF ok THEN ApplyIncrement(c, peer.results[c]) ELSE click_count
    /\ peer' = [peer EXCEPT !.todo = @ \ {c}]
    /\ UNCHANGED <<dropped, raced, redisClicks, memClickCounts, memClickMutex, inc, calls,
                   sync, reset, done, sinceDrain, overlap, fault, cycles,
                   cacheVars, envVars>>

\* ClearClickCounts in the peer: the SCAN collects the keys, or fails.
PeerClearScan ==
    /\ peer.pc = "apply" /\ peer.todo = {} /\ useRedis
    /\ \E keys \in {ClickKeys, {}} :
          peer' = [peer EXCEPT !.pc = IF keys /= {} THEN "del" ELSE "clear", !.keys = keys]
    /\ UNCHANGED <<dropped, raced, redisClicks, memClickCounts, memClickMutex, inc, calls,
                   sync, reset, click_count, done, sinceDrain, overlap, fault, cycles,
                   cacheVars, envVars>>

\* Del(ctx, keys...) in the peer: the keys are deleted, or the error is logged.
PeerDel ==
    /\ peer.pc = "del"
    /\ \E ok \in BOOLEAN :
          redisClicks' = [c \in Codes |->
                            IF ok /\ c \in peer.keys THEN 0 ELSE redisClicks[c]]
    /\ peer' = [peer EXCEPT !.pc = "clear", !.keys = {}]
    /\ UNCHANGED <<dropped, raced, memClickCounts, memClickMutex, inc, calls, sync, reset,
                   click_count, done, sinceDrain, overlap, fault, cycles,
                   cacheVars, envVars>>

\* The peer replaces its own memClickCounts; SyncClickCounts returns and the
\* loop waits for the next tick.
PeerClear ==
    /\ \/ peer.pc = "clear"
       \/ peer.pc = "apply" /\ peer.todo = {} /\ ~useRedis
    /\ peer' = [peer EXCEPT !.pc = "idle", !.cycles = @ + 1]
    /\ UNCHANGED <<dropped, raced, redisClicks, memClickCounts, memClickMutex, inc, calls,
                   sync, reset, click_count, done, sinceDrain, overlap, fault, cycles,
                   cacheVars, envVars>>

PeerStep ==
    \/ PeerTick \/ PeerScan \/ PeerMerge \/ PeerClearScan \/ PeerDel \/ PeerClear
    \/ \E c \in Codes : PeerGet(c) \/ PeerApply(c)

\* -------------------------------------------------------------- initial
\* A row of table urls that no query returned.
NilRow ==
    [OriginalURL |-> -1, IsActive |-> FALSE, DeletedAt |-> 0, Expired |-> FALSE,
     UpdatedAt |-> 0]

\* The frame of a URLService method before its first step: the row it read
\* (url), the row it re-read (updatedURL), its arguments (id is code or ids,
\* originalURL, active), the rows its loop still has to handle (urls), and
\* the error it returns. History: was, is_active as First read it; hit, the
\* rows its statement changed; called, the cache calls it issued; remoteErr,
\* one of them failed at the Remote tier. A lookup keeps what GetURL gave it
\* in url and found; history: expired, the record's ExpiresAt lay before
\* time.Now() when the lookup tested it. The warm-up keeps the slice that
\* Find filled in rows.
SvcIdle ==
    [op |-> "none", pc |-> "idle", code |-> "a", ids |-> {}, url |-> NilRow,
     updatedURL |-> NilRow, originalURL |-> 0, active |-> FALSE, urls |-> {},
     rows |-> Empty, err |-> FALSE, found |-> FALSE, expired |-> FALSE, was |-> FALSE,
     hit |-> {}, called |-> {}, remoteErr |-> FALSE]

\* A cache call made from outside URLService has no frame to return to.
NoCaller == SvcIdle

\* The frame of a cache call before its first step.
CacheIdle ==
    [op |-> "none", pc |-> "idle", code |-> "a", url |-> NilURL, found |-> FALSE,
     saw |-> "none", clean |-> FALSE, alone |-> FALSE, by |-> NoCaller]

\* What the url:* keys of the Remote tier can hold when the process starts:
\* records an earlier run or another process of the service published there
\* (the tier is shared and outlives the process), or a payload that is not
\* the JSON of a models.URL.
Leftovers == UNION {[K -> Payloads] : K \in SUBSET {URLKey(c) : c \in Codes}}

\* Manager.expiry, time.Duration(cacheExpiry) * time.Minute, in units of the
\* model's clock.
Expiry == 2

\* The Redis address of the configuration: none, or one.
Addrs == {"", "redis:6379"}

\* Manager.useRedis as NewCacheManager leaves it: false, and true after
\* if redisAddr != "" when rdb.Ping returned no error.
NewCacheManager(redisAddr, pingOk) == redisAddr /= "" /\ pingOk

\* NewCacheManager: useRedis is true when an address was given and the ping
\* succeeded; memCache and memClickCounts are new and empty.
InitManager ==
    /\ useRedis \in {NewCacheManager(a, ok) : a \in Addrs, ok \in BOOLEAN}
    /\ memCache = Empty
    /\ redisURL \in IF useRedis THEN Leftovers ELSE {Empty}
    /\ timer = [mem |-> [c \in Codes |-> 0],
                redis |-> [c \in Codes |-> IF URLKey(c) \in DOMAIN redisURL THEN Expiry ELSE 0],
                memAge |-> [c \in Codes |-> 0],
                redisAge |-> [c \in Codes |-> 0]]
    /\ redisClicks = [c \in Codes |-> 0]
    /\ memClickCounts = [c \in Codes |-> 0]
    /\ memClickMutex = FALSE

InitTasks ==
    /\ inc = EmptyBag
    /\ calls = 0
    /\ sync = [pc |-> "idle", keys |-> {}, results |-> Empty, todo |-> {}]
    /\ reset = EmptyBag
    /\ peer = [pc |-> "idle", keys |-> {}, results |-> Empty, todo |-> {}, cycles |-> 0]
    /\ click_count = [c \in Codes |-> 0]
    /\ ctask = EmptyBag
    /\ ops = 0
    /\ alive = TRUE
    /\ stask = EmptyBag
    /\ svcOps = 0
    /\ svcOverlap = FALSE

InitHistory ==
    /\ done = [c \in Codes |-> 0]
    /\ sinceDrain = [c \in Codes |-> 0]
    /\ overlap = FALSE
    /\ raced = FALSE
    /\ dropped = [c \in Codes |-> 0]
    /\ fault = "none"
    /\ cycles = 0
    /\ fresh = Empty
    /\ everSet = {c \in Codes : URLKey(c) \in DOMAIN redisURL /\ redisURL[URLKey(c)] /= Malformed}

IncStep ==
    \/ \E c \in Codes : IncrementClick(c)
    \/ \E r \in BagToSet(inc) :
          \/ GoIncrOk(r) \/ GoIncrFail(r) \/ GoIncrLost(r)
          \/ ExpireOk(r) \/ ExpireFail(r)
          \/ MemLock(r) \/ MemUnlock(r)

SyncStep ==
    \/ Tick \/ ScanOk \/ ScanFail
    \/ \E c \in Codes : GetOk(c) \/ GetFail(c)
    \/ Merge
    \/ \E c \in Codes : ApplyOk(c) \/ ApplyFail(c)
    \/ ClearScanOk \/ ClearScanFail \/ DelOk \/ DelFail \/ ClearLocal

\* ------------------------------------------------------------ record cache
\* History: the entry of code c was overwritten, deleted or expired; a SetURL
\* for c that has not returned yet no longer starts a guarantee.
\* Set(key, value, c.expiry) in a tier: the entry's expiry is c.expiry from now.
Written(t, tier, c) ==
    IF tier = "mem" THEN [t EXCEPT !.mem[c] = Expiry, !.memAge[c] = 0]
                    ELSE [t EXCEPT !.redis[c] = Expiry, !.redisAge[c] = 0]

\* The entry leaves a tier (Delete, Del, or its expiry ran out).
Gone(t, tier, c) ==
    IF tier = "mem" THEN [t EXCEPT !.mem[c] = 0, !.memAge[c] = 0]
                    ELSE [t EXCEPT !.redis[c] = 0, !.redisAge[c] = 0]

\* Mutant of Hit: a read served from the Local tier renews the entry's expiry.
HitRefreshes(t, c) == [t EXCEPT !.mem[c] = Expiry]

\* GetURL's Local hit: memCache.Get and return; no Set, no Expire, in either
\* tier.
Hit(t, c) == t

Unclean(r, c) == IF r.code = c THEN [r EXCEPT !.clean = FALSE] ELSE r
Disturb(bag, c) ==
    LET S == BagToSet(bag)
        T == {Unclean(r, c) : r \in S}
    IN [q \in T |-> LET P == {r \in S : Unclean(r, c) = q}
                        n[Q \in SUBSET P] ==
                            IF Q = {} THEN 0
                            ELSE LET x == CHOOSE x \in Q : TRUE
                                 IN bag[x] + n[Q \ {x}]
                    IN n[P]]

\* History: a call for code c starts; the calls for c that have not returned
\* no longer run alone.
Crowded(r, c) == IF r.code = c THEN [r EXCEPT !.alone = FALSE] ELSE r
Crowd(bag, c) ==
    LET S == BagToSet(bag)
        T == {Crowded(r, c) : r \in S}
    IN [q \in T |-> LET P == {r \in S : Crowded(r, c) = q}
                        n[Q \in SUBSET P] ==
                            IF Q = {} THEN 0
                            ELSE LET x == CHOOSE x \in Q : TRUE
                                 IN bag[x] + n[Q \ {x}]
                    IN n[P]]

\* History: no other call for code c is in progress.
NoCallFor(c) == \A r \in BagToSet(ctask) : r.code /= c

\* GetURL up to the memory lookup: a hit returns the cached pointer; a miss
\* goes on to Redis when useRedis, and returns (nil, false) otherwise.
GetURLBy(shortCode, caller) ==
    LET key == URLKey(shortCode) IN
    /\ ctask' = Crowd(ctask, shortCode) (+) SetToBag({
          IF key \in DOMAIN memCache
          THEN [CacheIdle EXCEPT !.op = "get", !.pc = "ret", !.code = shortCode,
                                 !.url = memCache[key], !.found = TRUE, !.saw = "memory",
                                 !.alone = NoCallFor(shortCode), !.by = caller]
          ELSE IF useRedis
          THEN [CacheIdle EXCEPT !.op = "get", !.pc = "rget", !.code = shortCode,
                                 !.alone = NoCallFor(shortCode), !.by = caller]
          ELSE [CacheIdle EXCEPT !.op = "get", !.pc = "ret", !.code = shortCode,
                                 !.alone = NoCallFor(shortCode), !.by = caller]})
    /\ timer' = IF URLKey(shortCode) \in DOMAIN memCache THEN Hit(timer, shortCode) ELSE timer
    /\ UNCHANGED <<memCache, redisURL, fresh, everSet, clickVars, useRedis, alive>>

\* GetURL called from outside URLService.
GetURL(shortCode) ==
    /\ ops < MaxOps
    /\ ops' = ops + 1
    /\ GetURLBy(shortCode, NoCaller)
    /\ UNCHANGED svcVars

\* c.redisClient.Get(c.ctx, key).Result() answers: redis.Nil (an error) when
\* the key is absent; else json.Unmarshal decides between a hit and a miss.
GetRemoteOk(r) ==
    LET key == URLKey(r.code) IN
    /\ r.pc = "rget"
    /\ ctask' = Move(ctask, r,
          IF key \notin DOMAIN redisURL
          THEN [r EXCEPT !.pc = "ret", !.saw = "nil"]
          ELSE IF UnmarshalErr(redisURL[key])
          THEN [r EXCEPT !.pc = "ret", !.saw = "malformed"]
          ELSE [r EXCEPT !.pc = "repop", !.url = Unmarshal(redisURL[key]), !.saw = "redis"])
    /\ UNCHANGED <<memCache, redisURL, ops, fresh, everSet, timer, clickVars, envVars>>

\* The Get fails (err != nil): GetURL returns (nil, false).
GetRemoteFail(r) ==
    /\ r.pc = "rget"
    /\ ctask' = Move(ctask, r, [r EXCEPT !.pc = "ret", !.saw = "err"])
    /\ UNCHANGED <<memCache, redisURL, ops, fresh, everSet, timer, clickVars, envVars>>

\* Mutant of Repopulate: the Remote record is returned and not stored.
RepopulateSkipped(r) ==
    /\ r.pc = "repop"
    /\ ctask' = Move(ctask, r, [r EXCEPT !.pc = "ret", !.found = TRUE, !.clean = TRUE])
    /\ UNCHANGED <<memCache, redisURL, ops, fresh, everSet, timer, clickVars, envVars>>

\* c.memCache.Set(key, &url, c.expiry); return &url, true. History: clean,
\* the entry written here has not been overwritten, deleted or expired.
Repopulate(r) ==
    /\ r.pc = "repop"
    /\ memCache' = Put(memCache, URLKey(r.code), r.url)
    /\ ctask' = Move(ctask, r, [r EXCEPT !.pc = "ret", !.found = TRUE, !.clean = TRUE])
    /\ timer' = Written(timer, "mem", r.code)
    /\ UNCHANGED <<redisURL, ops, fresh, everSet, clickVars, envVars>>

\* SetURL up to c.memCache.Set(key, url, c.expiry).
SetURLBy(shortCode, url, caller) ==
    /\ memCache' = Put(memCache, URLKey(shortCode), url)
    /\ ctask' = Crowd(Disturb(ctask, shortCode), shortCode) (+) SetToBag({
          [CacheIdle EXCEPT !.op = "set", !.pc = IF useRedis THEN "rset" ELSE "ret",
                            !.code = shortCode, !.url = url, !.clean = TRUE,
                            !.alone = NoCallFor(shortCode), !.by = caller]})
    /\ fresh' = Drop(fresh, shortCode)
    /\ everSet' = everSet \cup {shortCode}
    /\ timer' = Written(timer, "mem", shortCode)
    /\ UNCHANGED <<redisURL, clickVars, useRedis, alive>>

\* SetURL called from outside URLService.
SetURL(shortCode, url) ==
    /\ ops < MaxOps
    /\ ops' = ops + 1
    /\ SetURLBy(shortCode, url, NoCaller)
    /\ UNCHANGED svcVars

\* json.Marshal and c.redisClient.Set(c.ctx, key, data, c.expiry) with err == nil.
SetRemoteOk(r) ==
    /\ r.pc = "rset"
    /\ redisURL' = Put(redisURL, URLKey(r.code), Marshal(r.url))
    /\ ctask' = Move(ctask, r, [r EXCEPT !.pc = "ret"])
    /\ timer' = Written(timer, "redis", r.code)
    /\ UNCHANGED <<memCache, ops, fresh, everSet, clickVars, envVars>>

\* Mutant of SetRemoteFail: the failed Remote write rolls the Local write back.
SetRemoteFailRollback(r) ==
    /\ r.pc = "rset"
    /\ memCache' = Drop(memCache, URLKey(r.code))
    /\ ctask' = Move(ctask, r, [r EXCEPT !.pc = "ret", !.saw = "err"])
    /\ timer' = Gone(timer, "mem", r.code)
    /\ UNCHANGED <<redisURL, ops, fresh, everSet, clickVars, envVars>>

\* The Set fails: logged, SetURL returns.
SetRemoteFail(r) ==
    /\ r.pc = "rset"
    /\ ctask' = Move(ctask, r, [r EXCEPT !.pc = "ret", !.saw = "err"])
    /\ UNCHANGED <<memCache, redisURL, ops, fresh, everSet, timer, clickVars, envVars>>

\* Mutant of DeleteURL: c.memCache.Delete(key) is left out.
DeleteURLRemoteOnly(shortCode) ==
    /\ ops < MaxOps
    /\ ops' = ops + 1
    /\ ctask' = Crowd(Disturb(ctask, shortCode), shortCode) (+) SetToBag({
          [CacheIdle EXCEPT !.op = "del", !.pc = IF useRedis THEN "rdel" ELSE "ret",
                            !.code = shortCode, !.clean = TRUE,
                            !.alone = NoCallFor(shortCode)]})
    /\ fresh' = Drop(fresh, shortCode)
    /\ UNCHANGED <<memCache, redisURL, everSet, timer, clickVars, envVars>>

\* DeleteURL up to c.memCache.Delete(key).
DeleteURLBy(shortCode, caller) ==
    /\ memCache' = Drop(memCache, URLKey(shortCode))
    /\ ctask' = Crowd(Disturb(ctask, shortCode), shortCode) (+) SetToBag({
          [CacheIdle EXCEPT !.op = "del", !.pc = IF useRedis THEN "rdel" ELSE "ret",
                            !.code = shortCode, !.clean = TRUE,
                            !.alone = NoCallFor(shortCode), !.by = caller]})
    /\ fresh' = Drop(fresh, shortCode)
    /\ timer' = Gone(timer, "mem", shortCode)
    /\ UNCHANGED <<redisURL, everSet, clickVars, useRedis, alive>>

\* DeleteURL called from outside URLService.
DeleteURL(shortCode) ==
    /\ ops < MaxOps
    /\ ops' = ops + 1
    /\ DeleteURLBy(shortCode, NoCaller)
    /\ UNCHANGED svcVars

\* c.redisClient.Del(c.ctx, key) with err == nil.
DelRemoteOk(r) ==
    /\ r.pc = "rdel"
    /\ redisURL' = Drop(redisURL, URLKey(r.code))
    /\ ctask' = Move(ctask, r, [r EXCEPT !.pc = "ret"])
    /\ timer' = Gone(timer, "redis", r.code)
    /\ UNCHANGED <<memCache, ops, fresh, everSet, clickVars, envVars>>

\* The Del fails: logged, DeleteURL returns.
DelRemoteFail(r) ==
    /\ r.pc = "rdel"
    /\ ctask' = Move(ctask, r, [r EXCEPT !.pc = "ret", !.saw = "err"])
    /\ UNCHANGED <<memCache, redisURL, ops, fresh, everSet, timer, clickVars, envVars>>

\* Mutant of Valid: a record that was found is returned whatever it says.
ValidIfFound(found, url, expired) == found

\* The test of GetURLByShortCode: found, and url.IsActive &&
\* (url.ExpiresAt == nil || url.ExpiresAt.After(time.Now())).
Valid(found, url, expired) == found /\ url.IsActive /\ ~expired

\* The ExpiresAt of the records of code c lies before time.Now(): a row's
\* expires_at is set once, so every cached copy of it has the row's.
ExpiredNow(c) == c \in DOMAIN db /\ db[c].Expired

\* The frame of the URLService method goes on after its cache call: a batch
\* with the next row, the others to their return. History: remoteErr.
Resume(t, r) ==
    [t EXCEPT !.pc = IF t.urls \ {r.code} = {} THEN "ret" ELSE "loop",
              !.urls = @ \ {r.code},
              !.remoteErr = @ \/ r.saw = "err"]

\* Mutant of Looked: on a cache miss the lookup falls back to the row of the
\* Record Store.
LookedOrStore(t, r) ==
    LET row == db[t.code]
        inStore == /\ t.code \in DOMAIN db /\ row.DeletedAt = 0
                   /\ row.IsActive /\ ~row.Expired
        miss == ~r.found /\ inStore
    IN [t EXCEPT !.pc = IF t.op = "redirect" THEN "reply" ELSE "ret",
                 !.url = IF miss
                         THEN [OriginalURL |-> row.OriginalURL, IsActive |-> row.IsActive,
                               DeletedAt |-> row.DeletedAt]
                         ELSE r.url,
                 !.found = r.found,
                 !.expired = ExpiredNow(t.code),
                 !.err = ~(miss \/ Valid(r.found, r.url, ExpiredNow(t.code))),
                 !.remoteErr = @ \/ r.saw = "err"]

\* GetURLByShortCode after GetURL: the record, or "链接已失效"; the frame of
\* Redirect goes on to its reply.
Looked(t, r) ==
    [t EXCEPT !.pc = IF t.op = "redirect" THEN "reply" ELSE "ret",
              !.url = r.url,
              !.found = r.found,
              !.expired = ExpiredNow(t.code),
              !.err = ~Valid(r.found, r.url, ExpiredNow(t.code)),
              !.remoteErr = @ \/ r.saw = "err"]

\* The caller of a cache call goes on.
Resumed(r) == IF r.op = "get" THEN Looked(r.by, r) ELSE Resume(r.by, r)

\* The call has returned to its caller. History: a SetURL that was not
\* disturbed starts the guarantee for its record.
Return(r) ==
    /\ r.pc = "ret"
    /\ ctask' = End(ctask, r)
    /\ fresh' = IF r.op = "set" /\ r.clean THEN Put(fresh, r.code, r.url) ELSE fresh
    /\ stask' = IF r.by = NoCaller THEN stask ELSE Move(stask, r.by, Resumed(r))
    /\ UNCHANGED <<memCache, redisURL, ops, everSet, timer, clickVars, useRedis, alive,
                   db, svcOps, svcOverlap>>

\* The expiry given to memCache.Set elapses: go-cache stops returning the item.
LocalExpire(c) ==
    /\ URLKey(c) \in DOMAIN memCache
    /\ memCache' = Drop(memCache, URLKey(c))
    /\ ctask' = Disturb(ctask, c)
    /\ fresh' = Drop(fresh, c)
    /\ timer' = Gone(timer, "mem", c)
    /\ UNCHANGED <<redisURL, ops, everSet, clickVars, envVars>>

\* The expiry given to redisClient.Set elapses: Redis drops the key.
RemoteExpire(c) ==
    /\ URLKey(c) \in DOMAIN redisURL
    /\ redisURL' = Drop(redisURL, URLKey(c))
    /\ ctask' = Disturb(ctask, c)
    /\ fresh' = Drop(fresh, c)
    /\ timer' = Gone(timer, "redis", c)
    /\ UNCHANGED <<memCache, ops, everSet, clickVars, envVars>>

CacheStep ==
    \/ \E c \in Codes : GetURL(c) \/ DeleteURL(c)
    \/ \E c \in Codes, u \in URL : SetURL(c, u)
    \/ \E r \in BagToSet(ctask) :
          \/ GetRemoteOk(r) \/ GetRemoteFail(r) \/ Repopulate(r)
          \/ SetRemoteOk(r) \/ SetRemoteFail(r)
          \/ DelRemoteOk(r) \/ DelRemoteFail(r)
          \/ Return(r)

ExpiryStep ==
    \E c \in Codes : LocalExpire(c) \/ RemoteExpire(c)

\* Disturb for every code of S.
DisturbAll(bag, S) ==
    LET f[Q \in SUBSET S] ==
            IF Q = {} THEN bag
            ELSE LET x == CHOOSE x \in Q : TRUE IN Disturb(f[Q \ {x}], x)
    IN f[S]

\* One unit of time passes: every entry has one unit less to live, and an
\* entry whose expiry has run out is no longer returned (go-cache compares
\* the expiration stored by Set with time.Now(); Redis drops the key).
Elapse ==
    LET due(left) == {c \in Codes : left[c] = 1}
        less(left) == [c \in Codes |-> IF left[c] > 0 THEN left[c] - 1 ELSE 0]
        older(age, left) ==
            [c \in Codes |-> IF left[c] > 1 THEN age[c] + 1 ELSE 0]
        kept(m, left) ==
            [k \in {k \in DOMAIN m : \A c \in due(left) : URLKey(c) /= k} |-> m[k]]
        out == due(timer.mem) \cup due(timer.redis)
    IN
    /\ \E c \in Codes : timer.mem[c] > 0 \/ timer.redis[c] > 0
    /\ timer' = [mem |-> less(timer.mem), redis |-> less(timer.redis),
                 memAge |-> older(timer.memAge, timer.mem),
                 redisAge |-> older(timer.redisAge, timer.redis)]
    /\ memCache' = kept(memCache, timer.mem)
    /\ redisURL' = kept(redisURL, timer.redis)
    /\ ctask' = DisturbAll(ctask, out)
    /\ fresh' = [c \in DOMAIN fresh \ out |-> fresh[c]]
    /\ UNCHANGED <<ops, everSet, clickVars, envVars>>

\* ------------------------------------------------- URLService write-through
\* Table urls is keyed by short code here: generateShortCodeFromURL makes the
\* code a function of the URL a row was created for, and an id is never used
\* again, so a code whose row is soft-deleted gets no second row. A row
\* carries deleted_at (0: NULL), Expired (expires_at lies before time.Now())
\* and updated_at as a count of the statements that wrote it.

\* The row is visible to First, Find and Updates: gorm adds
\* deleted_at IS NULL to every query of a model with a DeletedAt field.
Live(c) == c \in DOMAIN db /\ db[c].DeletedAt = 0

\* The row db.Create inserts for url (IsActive: true).
NewRow(originalURL) ==
    [OriginalURL |-> originalURL, IsActive |-> TRUE, DeletedAt |-> 0,
     Expired |-> FALSE, UpdatedAt |-> 0]

\* The models.URL a query fills from a row, as the cache layer sees it.
AsURL(row) ==
    [OriginalURL |-> row.OriginalURL, IsActive |-> row.IsActive,
     DeletedAt |-> row.DeletedAt]

\* A method of URLService is entered. History: svcOverlap.
Enter(t) ==
    /\ svcOps < MaxSvc
    /\ svcOps' = svcOps + 1
    /\ svcOverlap' = (svcOverlap \/ stask /= EmptyBag)
    /\ stask' = stask (+) SetToBag({t})

\* A later step of a method.
Step(t, q) ==
    /\ stask' = Move(stask, t, q)
    /\ UNCHANGED <<svcOps, svcOverlap>>

\* What a step that makes no cache call leaves alone.
NoCacheCall == UNCHANGED <<cacheVars, clickVars, useRedis, alive>>

\* CreateShortURL up to db.Create: "URL已存在" when a live row has the URL,
\* else the insert of url.
CreateShortURL(shortCode, originalURL) ==
    /\ shortCode \notin DOMAIN db \/ Live(shortCode)
    /\ IF Live(shortCode)
       THEN /\ Enter([SvcIdle EXCEPT !.op = "create", !.pc = "ret",
                                     !.code = shortCode, !.err = TRUE])
            /\ db' = db
       ELSE /\ Enter([SvcIdle EXCEPT !.op = "create", !.pc = "publish",
                                     !.code = shortCode,
                                     !.url = NewRow(originalURL),
                                     !.hit = {shortCode}])
            /\ db' = Put(db, shortCode, NewRow(originalURL))
    /\ NoCacheCall

\* GetURLByShortCode: the lookup of a redirect.
GetURLByShortCode(shortCode) ==
    LET t == [SvcIdle EXCEPT !.op = "get", !.pc = "cache", !.code = shortCode] IN
    /\ Enter(t)
    /\ GetURLBy(shortCode, t)
    /\ UNCHANGED <<ops, db>>

\* Redirect up to the lookup: h.urlService.GetURLByShortCode(shortCode).
Redirect(shortCode) ==
    LET t == [SvcIdle EXCEPT !.op = "redirect", !.pc = "cache", !.code = shortCode] IN
    /\ Enter(t)
    /\ GetURLBy(shortCode, t)
    /\ UNCHANGED <<ops, db>>

\* Redirect after the lookup: 404 on the error or on an inactive record,
\* else IncrementClickCount and the 302 (or the block page).
RedirectReply(t) ==
    /\ t.op = "redirect"
    /\ t.pc = "reply"
    /\ IF t.err \/ ~t.url.IsActive
       THEN /\ Step(t, [t EXCEPT !.pc = "ret", !.called = @ \cup {"404"}])
            /\ UNCHANGED clickVars
       ELSE /\ Step(t, [t EXCEPT !.pc = "ret", !.called = @ \cup {"click", "302"}])
            /\ Spawn(t.code)
    /\ UNCHANGED <<cacheVars, useRedis, alive, db>>

\* s.db.First(&url, id) of UpdateURL, ToggleURLStatus and DeleteURL: the
\* method returns the error when no live row has the id.
First(op, id, originalURL, active, next) ==
    /\ Enter(IF Live(id)
             THEN [SvcIdle EXCEPT !.op = op, !.pc = next, !.code = id,
                                  !.ids = {id}, !.urls = {id}, !.url = db[id],
                                  !.originalURL = originalURL, !.active = active,
                                  !.was = db[id].IsActive]
             ELSE [SvcIdle EXCEPT !.op = op, !.pc = "ret", !.code = id,
                                  !.err = TRUE])
    /\ db' = db
    /\ NoCacheCall

\* UpdateURL up to the map of updates; originalURL 0 is the empty string.
UpdateURL(id, originalURL, active) == First("update", id, originalURL, active, "updates")

\* ToggleURLStatus up to the call of Updates.
ToggleURLStatus(id) == First("toggle", id, 0, FALSE, "updates")

\* URLService.DeleteURL up to db.Delete.
ServiceDeleteURL(id) == First("delete", id, 0, FALSE, "delete")

\* The map handed to Updates, applied to a row or to the struct: UpdateURL
\* sets original_url when one was given and is_active when active differs
\* from url.IsActive; ToggleURLStatus sets is_active to !url.IsActive; both
\* set updated_at.
Assign(t, row) ==
    [row EXCEPT
       !.OriginalURL = IF t.op = "update" /\ t.originalURL /= 0
                       THEN t.originalURL ELSE @,
       !.IsActive = IF t.op = "toggle" THEN ~t.url.IsActive
                    ELSE IF t.active /= t.url.IsActive THEN t.active ELSE @,
       !.UpdatedAt = @ + 1]

\* s.db.Model(&url).Updates(map): one UPDATE of the row with url's id, if it
\* is live. gorm.io/gorm also assigns the values of the map to the fields of
\* the model it was given, so url holds them afterwards, url.IsActive
\* included.
Updates(t) ==
    /\ t.op \in {"update", "toggle"}
    /\ t.pc = "updates"
    /\ db' = IF Live(t.code) THEN [db EXCEPT ![t.code] = Assign(t, @)] ELSE db
    /\ Step(t, [t EXCEPT !.pc = "sync", !.url = Assign(t, @),
                         !.hit = IF Live(t.code) THEN {t.code} ELSE {}])
    /\ NoCacheCall

\* The test that chooses DeleteURL over SetURL: if !url.IsActive in
\* UpdateURL, if url.IsActive in ToggleURLStatus.
Evicts(t) == IF t.op = "update" THEN ~t.url.IsActive ELSE t.url.IsActive

\* s.cacheManager.DeleteURL(url.ShortCode) from a method of URLService.
Evict(t, c) ==
    LET q == [t EXCEPT !.pc = "cache", !.code = c, !.called = @ \cup {"del"}] IN
    /\ Step(t, q)
    /\ DeleteURLBy(c, q)
    /\ UNCHANGED <<ops, db>>

\* The loop goes on past row c without a cache call.
Skip(t, c) ==
    [t EXCEPT !.pc = IF t.urls \ {c} = {} THEN "ret" ELSE "loop",
              !.urls = @ \ {c}]

\* s.db.First(&updatedURL, id): the row as it is now; nothing is published
\* when no live row has the id.
Reread(t, c) ==
    /\ Step(t, IF Live(c)
               THEN [t EXCEPT !.pc = "publish", !.code = c, !.updatedURL = db[c]]
               ELSE Skip(t, c))
    /\ db' = db
    /\ NoCacheCall

\* UpdateURL and ToggleURLStatus after Updates: DeleteURL, or the re-read.
Sync(t) ==
    /\ t.op \in {"update", "toggle"}
    /\ t.pc = "sync"
    /\ IF Evicts(t) THEN Evict(t, t.code) ELSE Reread(t, t.code)

\* Mutant of Published: the struct the method read before its update.
PublishedSnapshot(t) == AsURL(t.url)

\* The record handed to SetURL: url in CreateShortURL, updatedURL elsewhere.
Published(t) == AsURL(IF t.op = "create" THEN t.url ELSE t.updatedURL)

\* s.cacheManager.SetURL(shortCode, record) from a method of URLService.
Publish(t) ==
    LET q == [t EXCEPT !.pc = "cache", !.called = @ \cup {"set"}] IN
    /\ t.pc = "publish"
    /\ Step(t, q)
    /\ SetURLBy(t.code, Published(t), q)
    /\ UNCHANGED <<ops, db>>

\* BatchDeleteURLs up to the batch Delete: Find, and the error when a row
\* is missing.
BatchDeleteURLs(ids) ==
    /\ Enter(IF \A c \in ids : Live(c)
             THEN [SvcIdle EXCEPT !.op = "batchdelete", !.pc = "delete",
                                  !.ids = ids, !.urls = ids]
             ELSE [SvcIdle EXCEPT !.op = "batchdelete", !.pc = "ret",
                                  !.ids = ids, !.err = TRUE])
    /\ db' = db
    /\ NoCacheCall

\* db.Delete(&url) and Where("id IN ?", urlIds).Delete: the soft delete.
SoftDelete(t) ==
    /\ t.op \in {"delete", "batchdelete"}
    /\ t.pc = "delete"
    /\ db' = [c \in DOMAIN db |->
                IF c \in t.ids /\ Live(c)
                THEN [db[c] EXCEPT !.DeletedAt = 1, !.UpdatedAt = @ + 1] ELSE db[c]]
    /\ Step(t, [t EXCEPT !.pc = "loop", !.hit = {c \in t.ids : Live(c)}])
    /\ NoCacheCall

\* BatchToggleURLs up to the batch Updates: Find.
BatchToggleURLs(ids, active) ==
    /\ Enter([SvcIdle EXCEPT !.op = "batchtoggle", !.pc = "batch", !.ids = ids,
                             !.active = active, !.urls = {c \in ids : Live(c)}])
    /\ db' = db
    /\ NoCacheCall

\* CleanupExpiredURLs up to the Update: Find of the expired active rows.
CleanupExpiredURLs ==
    /\ Enter([SvcIdle EXCEPT
                !.op = "cleanup", !.pc = "batch",
                !.urls = {c \in Codes : Live(c) /\ db[c].Expired /\ db[c].IsActive}])
    /\ db' = db
    /\ NoCacheCall

\* The rows the batch statement writes: the live ones of ids in
\* BatchToggleURLs, the live expired ones in CleanupExpiredURLs.
Matched(t) ==
    {c \in Codes : Live(c) /\ IF t.op = "cleanup" THEN db[c].Expired ELSE c \in t.ids}

\* updateQuery.Updates(is_active: active) and Update("is_active", false).
\* History: hit, the rows whose is_active the statement changed or set.
BatchUpdates(t) ==
    /\ t.op \in {"batchtoggle", "cleanup"}
    /\ t.pc = "batch"
    /\ db' = [c \in DOMAIN db |->
                IF c \in Matched(t)
                THEN [db[c] EXCEPT !.IsActive = t.active, !.UpdatedAt = @ + 1]
                ELSE db[c]]
    /\ Step(t, [t EXCEPT !.pc = IF t.urls = {} THEN "ret" ELSE "loop",
                         !.hit = IF t.op = "cleanup"
                                 THEN {c \in Matched(t) : db[c].IsActive}
                                 ELSE Matched(t)])
    /\ NoCacheCall

\* One turn of for _, url := range urls: DeleteURL, or in BatchToggleURLs
\* with active the re-read of the row.
Loop(t) ==
    /\ t.op \in {"delete", "batchdelete", "batchtoggle", "cleanup"}
    /\ t.pc = "loop"
    /\ \E c \in t.urls :
          IF t.op = "batchtoggle" /\ t.active THEN Reread(t, c) ELSE Evict(t, c)

\* WarmupCache: go func() { ... }() - the caller returns at once.
WarmupCache ==
    /\ Enter([SvcIdle EXCEPT !.op = "warmup", !.pc = "find"])
    /\ db' = db
    /\ NoCacheCall

\* The goroutine of WarmupCache: Find of the active, unexpired rows.
WarmupFind(t) ==
    LET live == {c \in Codes : Live(c) /\ db[c].IsActive /\ ~db[c].Expired} IN
    /\ t.op = "warmup"
    /\ t.pc = "find"
    /\ Step(t, [t EXCEPT !.pc = IF live = {} THEN "ret" ELSE "loop",
                         !.urls = live,
                         !.rows = [c \in live |-> db[c]]])
    /\ db' = db
    /\ NoCacheCall

\* The order of the slice: the element after which the loop ends.
LastOf(rows) == IF "b" \in DOMAIN rows THEN "b" ELSE "a"

\* Mutant of LoopVar: one variable url for the whole loop, so every &url
\* is the same pointer and reads as the last element.
LoopVarShared(rows, c) == rows[LastOf(rows)]

\* What the pointer &url, taken in the turn of the loop for code c, points
\* at: for _, url := range urls has one variable per turn, holding that
\* turn's element.
LoopVar(rows, c) == rows[c]

\* One turn of the loop of WarmupCache: s.cacheManager.SetURL(url.ShortCode, &url).
WarmupLoop(t) ==
    /\ t.op = "warmup"
    /\ t.pc = "loop"
    /\ \E c \in t.urls :
          LET q == [t EXCEPT !.pc = "cache", !.code = c, !.called = @ \cup {"set"}] IN
          /\ Step(t, q)
          /\ SetURLBy(c, AsURL(LoopVar(t.rows, c)), q)
    /\ UNCHANGED <<ops, db>>

\* s.db.Create(url) returns an error: CreateShortURL returns it.
CreateShortURLFail(shortCode, originalURL) ==
    /\ shortCode \notin DOMAIN db
    /\ Enter([SvcIdle EXCEPT !.op = "create", !.pc = "ret", !.code = shortCode,
                             !.url = NewRow(originalURL), !.err = TRUE])
    /\ db' = db
    /\ NoCacheCall

\* Mutant of StoreFail: the error of the statement is not tested and the
\* method goes on to its cache synchronisation.
StoreFailIgnored(t) ==
    /\ t.pc \in {"updates", "delete", "batch"}
    /\ Step(t, [t EXCEPT !.pc = IF t.pc = "updates" THEN "sync" ELSE "loop",
                         !.err = TRUE])
    /\ db' = db
    /\ NoCacheCall

\* The Updates, Delete or Update statement of a method returns an error:
\* nothing is written and the method returns the error (if err != nil
\* { return err }).
StoreFail(t) ==
    /\ t.pc \in {"updates", "delete", "batch"}
    /\ Step(t, [t EXCEPT !.pc = "ret", !.err = TRUE])
    /\ db' = db
    /\ NoCacheCall

\* The method returns to its caller.
SvcReturn(t) ==
    /\ t.pc = "ret"
    /\ stask' = End(stask, t)
    /\ UNCHANGED <<db, svcOps, svcOverlap>>
    /\ NoCacheCall

\* Time passes the expires_at of a row. The clock is read by
\* CleanupExpiredURLs, at its two calls of time.Now(), and by the test of a
\* lookup, so a row expires where a method can tell: before the calls start,
\* between the Find and the Update of a cleanup, or during a lookup.
Expire(c) ==
    /\ Live(c)
    /\ ~db[c].Expired
    /\ \/ svcOps = 0
       \/ \E t \in BagToSet(stask) :
             \/ t.op = "cleanup" /\ t.pc = "batch"
             \/ t.op \in {"get", "redirect"} /\ t.pc = "cache"
    /\ db' = [db EXCEPT ![c].Expired = TRUE]
    /\ UNCHANGED <<stask, svcOps, svcOverlap>>
    /\ NoCacheCall

\* ------------------------------------------------------- specifications
\* The record cache, started against a Remote tier that may hold leftovers.
Init == InitManager /\ InitTasks /\ InitHistory /\ db = Empty

NextCache == CacheStep \/ ExpiryStep
SpecCache == Init /\ [][NextCache]_vars

\* The record cache on a clock: entries leave a tier when the expiry their
\* last Set gave them has run out, and time does not stand still.
NextTimed == CacheStep \/ Elapse
SpecTimed == Init /\ [][NextTimed]_vars /\ WF_vars(Elapse)

\* The click counters and the aggregation loop (the url:* keys play no part).
InitClicks == Init /\ redisURL = Empty

NextClicks == IncStep \/ SyncStep
SpecClicks == InitClicks /\ [][NextClicks]_vars

\* The click counters with every party that takes memClickMutex: the
\* increment goroutines, the aggregation loop and GetAndResetClicks.
NextLocks == IncStep \/ SyncStep \/ ResetStep
SpecLocks == InitClicks /\ [][NextLocks]_vars

\* Two processes of the prefork group: the clicks and the aggregation loop of
\* this process, and the aggregation loop of a peer.
NextPrefork ==
    \/ \E c \in Codes : IncrementClick(c)
    \/ \E r \in BagToSet(inc) : GoIncrOk(r) \/ ExpireOk(r) \/ MemLock(r) \/ MemUnlock(r)
    \/ SyncStep
    \/ PeerStep
SpecPrefork == InitClicks /\ [][NextPrefork]_vars

\* The whole manager with the Remote tier disabled (useRedis false) or
\* unreachable after start-up (useRedis true, every Remote call fails); the
\* callers make at most MaxOps calls into it, of whatever kind.
CallBudget == calls + ops < MaxOps

NextDegraded ==
    \/ CallBudget /\ \E c \in Codes : IncrementClick(c)
    \/ \E r \in BagToSet(inc) : GoIncrFail(r) \/ MemLock(r) \/ MemUnlock(r)
    \/ Tick \/ ScanFail \/ Merge
    \/ \E c \in Codes : ApplyOk(c) \/ ApplyFail(c)
    \/ ClearScanFail \/ ClearLocal
    \/ CallBudget /\ \E c \in Codes : GetURL(c) \/ DeleteURL(c)
    \/ CallBudget /\ \E c \in Codes, u \in URL : SetURL(c, u)
    \/ \E c \in Codes : LocalExpire(c)
    \/ \E r \in BagToSet(ctask) :
          GetRemoteFail(r) \/ SetRemoteFail(r) \/ DelRemoteFail(r) \/ Return(r)
SpecDegraded == InitClicks /\ [][NextDegraded]_vars

\* The counters and the loop with a healthy Remote tier and a Record Store
\* whose updates may fail.
NextStoreFaults ==
    \/ \E c \in Codes : IncrementClick(c)
    \/ \E r \in BagToSet(inc) :
          GoIncrOk(r) \/ ExpireOk(r) \/ MemLock(r) \/ MemUnlock(r)
    \/ Tick \/ ScanOk \/ Merge
    \/ \E c \in Codes : GetOk(c) \/ ApplyOk(c) \/ ApplyFail(c)
    \/ ClearScanOk \/ DelOk \/ ClearLocal
SpecStoreFaults == InitClicks /\ [][NextStoreFaults]_vars

\* Scheduling: the goroutine of the loop keeps running (the ticker fires, a
\* call it makes returns), and a goroutine that holds memClickMutex reaches
\* its deferred Unlock.
SpecClicksLive ==
    /\ SpecClicks
    /\ WF_vars(SyncStep)
    /\ WF_vars(\E r \in BagToSet(inc) : MemUnlock(r))

\* main: a signal arrives, app.ShutdownWithContext returns and main returns;
\* the process ends with every goroutine wherever it is.
Shutdown ==
    /\ alive
    /\ alive' = FALSE
    /\ UNCHANGED <<useRedis, svcVars, cacheVars, clickVars>>

NextShutdown == (alive /\ NextClicks) \/ Shutdown
SpecShutdown == InitClicks /\ [][NextShutdown]_vars

\* URLService over both tiers, started on a table that holds rows and a
\* cache that holds none; every Remote call may fail.
Rows == {[NewRow(1) EXCEPT !.IsActive = a] : a \in BOOLEAN}
Tables == UNION {[K -> Rows] : K \in SUBSET Codes}
InitService == InitManager /\ InitTasks /\ InitHistory /\ redisURL = Empty /\ db \in Tables

Batches == SUBSET Codes \ {{}}

\* The rows start with URL 1; a new row gets URL 1, and an update gives
\* none (0, the empty string) or URL 2.
Created == {1}
Given == {0, 2}

\* A writing method of URLService is called.
WriteCall ==
    \/ \E c \in Codes, o \in Created : CreateShortURL(c, o)
    \/ \E c \in Codes, o \in Given, a \in BOOLEAN : UpdateURL(c, o, a)
    \/ \E c \in Codes : ToggleURLStatus(c) \/ ServiceDeleteURL(c)
    \/ \E ids \in Batches : BatchDeleteURLs(ids)
    \/ \E ids \in Batches, a \in BOOLEAN : BatchToggleURLs(ids, a)
    \/ CleanupExpiredURLs

\* A method in progress takes its next step, its store statement succeeding.
WriteStep ==
    \E t \in BagToSet(stask) :
        \/ Updates(t) \/ Sync(t) \/ Publish(t)
        \/ SoftDelete(t) \/ BatchUpdates(t) \/ Loop(t)
        \/ SvcReturn(t)

NextService ==
    \/ WriteCall
    \/ \E c \in Codes : GetURLByShortCode(c)
    \/ WriteStep
    \/ \E c \in Codes : Expire(c)
    \/ \E r \in BagToSet(ctask) :
          \/ GetRemoteOk(r) \/ GetRemoteFail(r) \/ Repopulate(r)
          \/ SetRemoteOk(r) \/ SetRemoteFail(r)
          \/ DelRemoteOk(r) \/ DelRemoteFail(r)
          \/ Return(r)
SpecService == InitService /\ [][NextService]_vars

\* The writing methods over a healthy Remote tier and a store whose
\* statements may fail.
NextStoreErrors ==
    \/ WriteCall
    \/ \E c \in Codes, o \in Created : CreateShortURLFail(c, o)
    \/ WriteStep
    \/ \E t \in BagToSet(stask) : StoreFail(t)
    \/ \E c \in Codes : Expire(c)
    \/ \E r \in BagToSet(ctask) : SetRemoteOk(r) \/ DelRemoteOk(r) \/ Return(r)
SpecStoreErrors == InitService /\ [][NextStoreErrors]_vars

\* Redirects beside the writing methods, over a healthy store; the click
\* goroutines of the redirects run.
NextRedirect ==
    \/ WriteCall
    \/ WriteStep
    \/ \E c \in Codes : Redirect(c) \/ Expire(c)
    \/ \E t \in BagToSet(stask) : RedirectReply(t)
    \/ \E r \in BagToSet(ctask) :
          \/ GetRemoteOk(r) \/ GetRemoteFail(r) \/ Repopulate(r)
          \/ SetRemoteOk(r) \/ DelRemoteOk(r)
          \/ Return(r)
    \/ \E r \in BagToSet(inc) :
          GoIncrOk(r) \/ GoIncrFail(r) \/ ExpireOk(r) \/ MemLock(r) \/ MemUnlock(r)
SpecRedirect == InitService /\ [][NextRedirect]_vars

\* The warm-up beside the writing methods, over a healthy store; the Remote
\* writes may fail.
NextWarmup ==
    \/ WarmupCache
    \/ \E t \in BagToSet(stask) : WarmupFind(t) \/ WarmupLoop(t)
    \/ WriteCall
    \/ WriteStep
    \/ \E c \in Codes : Expire(c)
    \/ \E r \in BagToSet(ctask) :
          \/ SetRemoteOk(r) \/ SetRemoteFail(r) \/ DelRemoteOk(r)
          \/ Return(r)
SpecWarmup == InitService /\ [][NextWarmup]_vars

\* ------------------------------------------------------------ properties
\* The clicks not yet flushed for code c, over both tiers.
Pending(c) == redisClicks[c] + memClickCounts[c]

\* No SyncClickCounts run and no increment goroutine is in progress.
Quiescent == sync.pc = "idle" /\ inc = EmptyBag

\* GetAllClickCounts has just returned its map to SyncClickCounts.
DrainReturned == sync.pc = "apply" /\ sync.todo = DOMAIN sync.results

\* The count the last drain returned for code c (an absent key counts 0).
Drained(c) == IF c \in DOMAIN sync.results THEN sync.results[c] ELSE 0

\* The increments ran while no cycle was in progress, and no Remote or store
\* call failed other than an Incr (compensated by the fallback) or an Expire.
Sequential == ~overlap /\ fault /= "lossy"

\* The configured maximum of Local entries (Config.CacheMaxItems), set below
\* the number of codes the callers publish.
CacheMaxItems == Cardinality(Codes) - 1

\* C1: click conservation. With no Remote failure and no apply failure at
\* all, whenever no cycle and no increment is in progress, for every code
\* the persisted click total plus the pending counters of both tiers equals
\* the number of IncrementClick calls completed for it.
C1_ClickConservation ==
    (Quiescent /\ fault = "none") =>
        \A c \in Codes : click_count[c] + Pending(c) = done[c]

\* C2: the drain never double-counts. After a cycle has ended, a code whose
\* count the drain returned and that has not been incremented since has no
\* counter left in either tier (so no later drain returns it again), also
\* when the Remote delete of ClearClickCounts failed.
C2_DrainedIsAbsent ==
    (Quiescent /\ cycles > 0 /\ ~overlap /\ \A c \in Codes : sinceDrain[c] = 0) =>
        \A c \in DOMAIN sync.results : Pending(c) = 0

\* C3: after SetURL(code, R) has returned, and until the entry expires, a
\* DeleteURL(code) is called or another SetURL(code, ...) overwrites it, a
\* GetURL(code) finds R (in the Local tier, which it consults first).
C3_PublishedIsFound ==
    \A c \in DOMAIN fresh :
        URLKey(c) \in DOMAIN memCache /\ memCache[URLKey(c)] = fresh[c]

\* C4: a GetURL for a code that was never set in either tier returns
\* (nil, false), and the Local tier holds nothing for such a code.
C4_NeverSetIsMiss ==
    /\ \A r \in BagToSet(ctask) :
          (r.op = "get" /\ r.pc \in {"repop", "ret"} /\ r.code \notin everSet) =>
              r.pc = "ret" /\ ~r.found /\ r.url = NilURL
    /\ \A c \in Codes \ everSet : URLKey(c) \notin DOMAIN memCache

C4_Witness ==
    \E r \in BagToSet(ctask) :
        /\ r.op = "get" /\ r.pc = "ret" /\ r.code \notin everSet
        /\ useRedis /\ r.saw = "nil" /\ everSet /= {}

C6_NoLostUpdate ==
    /\ (Quiescent /\ Sequential) => \A c \in Codes : Pending(c) = sinceDrain[c]
    /\ (DrainReturned /\ Sequential) => \A c \in Codes : Drained(c) = Pending(c)

C6_Witness ==
    /\ DrainReturned /\ Sequential /\ ~useRedis /\ raced
    /\ sinceDrain["a"] = 2 /\ Drained("a") = 2 /\ memClickCounts["a"] = 2

\* C7: draining and applying in two batches adds the same total to the
\* persisted click count as draining once: whenever everything registered
\* has been drained, click_count equals the number of clicks of the code,
\* however the increments were split over the cycles.
C7_BatchesAddUp ==
    (Quiescent /\ Sequential /\ \A c \in Codes : Pending(c) = 0) =>
        \A c \in Codes : click_count[c] = done[c]

C7_Witness ==
    /\ Quiescent /\ Sequential /\ cycles = 2
    /\ done["a"] = 2 /\ click_count["a"] = 2 /\ Drained("a") = 1

\* C8: with the Remote tier disabled or unreachable, a record published by
\* SetURL is found by GetURL, every IncrementClick lands in the Local counter
\* and is returned by the next drain, and no task is stuck: a task waiting
\* for memClickMutex waits for a goroutine that is about to release it.
C8_LocalOnlyWorks ==
    /\ \A c \in DOMAIN fresh :
          URLKey(c) \in DOMAIN memCache /\ memCache[URLKey(c)] = fresh[c]
    /\ (Quiescent /\ ~overlap) =>
          \A c \in Codes : memClickCounts[c] = sinceDrain[c] /\ redisClicks[c] = 0
    /\ (DrainReturned /\ ~overlap) => \A c \in Codes : Drained(c) = sinceDrain[c]
    /\ memClickMutex => \E r \in BagToSet(inc) : r.pc = "locked"
    /\ \A r \in BagToSet(ctask) : r.pc \in {"rget", "rset", "rdel", "ret"}

C8_Witness ==
    /\ useRedis /\ DrainReturned /\ ~overlap /\ fault /= "none"
    /\ Drained("a") = 1 /\ "a" \in DOMAIN fresh

\* C9: the Local tier never holds more entries than the configured maximum.
C9_LocalTierBounded == Cardinality(DOMAIN memCache) <= CacheMaxItems

\* C10: a Remote error or an undeserializable Remote payload during GetURL is
\* a miss: GetURL returns (nil, false), and what failed to deserialize is
\* never stored in the Local tier.
C10_RemoteErrorIsMiss ==
    /\ \A r \in BagToSet(ctask) :
          (r.op = "get" /\ r.saw \in {"err", "malformed"}) =>
              r.pc = "ret" /\ ~r.found /\ r.url = NilURL
    /\ \A k \in DOMAIN memCache : memCache[k] \in URL

C10_Witness ==
    \E r \in BagToSet(ctask) : r.op = "get" /\ r.pc = "ret" /\ r.saw = "malformed"

\* C11: SetURL writes the Local tier unconditionally. When its Remote write
\* has failed, the call still returns normally and the Local entry it wrote
\* is in place with the new record (so the Local lookup of a following
\* GetURL returns it), for a SetURL that ran alone on its code and whose
\* entry did not expire.
C11_FailedRemoteWriteKeepsLocal ==
    \A r \in BagToSet(ctask) :
        (r.op = "set" /\ r.pc = "ret" /\ r.saw = "err" /\ r.clean /\ r.alone) =>
            /\ URLKey(r.code) \in DOMAIN memCache
            /\ memCache[URLKey(r.code)] = r.url

C11_Witness ==
    \E r \in BagToSet(ctask) :
        /\ r.op = "set" /\ r.pc = "ret" /\ r.saw = "err" /\ r.clean /\ r.alone
        /\ URLKey(r.code) \in DOMAIN redisURL
        /\ redisURL[URLKey(r.code)] /= Marshal(r.url)

\* C12: DeleteURL removes the Local entry whatever the Remote delete does,
\* and when the Remote delete succeeded and no SetURL or GetURL for the code
\* ran concurrently, neither tier holds an entry when it returns, so a
\* following GetURL returns not-found.
C12_DeleteInvalidates ==
    \A r \in BagToSet(ctask) :
        (r.op = "del" /\ r.pc = "ret" /\ r.alone) =>
            /\ URLKey(r.code) \notin DOMAIN memCache
            /\ (useRedis /\ r.saw /= "err") => URLKey(r.code) \notin DOMAIN redisURL

C12_Witness ==
    \E r \in BagToSet(ctask) :
        /\ r.op = "del" /\ r.pc = "ret" /\ r.alone /\ r.saw /= "err"
        /\ useRedis /\ r.code \in everSet

\* C13: IncrementClick is fire-and-forget. In every state, whatever the
\* goroutines of earlier calls are waiting for (the Remote tier, or
\* memClickMutex held by another party), a call of IncrementClick can be made
\* and returns in one step of its caller.
C13_IncrementNeverWaits ==
    calls < MaxClicks => \A c \in Codes : ENABLED IncrementClick(c)

C13_Witness ==
    /\ memClickMutex /\ calls < MaxClicks
    /\ \E r \in BagToSet(inc) : r.pc = "locked"

\* C14: ClearClickCounts is idempotent. Whenever it returns, with a healthy
\* Remote tier and no increment running beside the cycle, both tiers hold no
\* click counter, whether it found counters to remove or none at all.
C14_ClearLeavesNothing ==
    [][(sync.pc /= "idle" /\ sync'.pc = "idle" /\ Sequential') =>
          \A c \in Codes : redisClicks'[c] = 0 /\ memClickCounts'[c] = 0]_vars

C14_Witness ==
    /\ Quiescent /\ Sequential /\ useRedis /\ cycles = 2
    /\ click_count["a"] = 1 /\ sync.results = Empty
    /\ \A c \in Codes : Pending(c) = 0

\* C15: apply failures are isolated per key. A failed update of one code
\* does not end the batch: every other code of the batch is applied, and the
\* failed code's drained count is dropped and its counters cleared, so it is
\* not applied in a later tick.
C15_ApplyFailureIsolated ==
    /\ (Quiescent /\ ~overlap /\ \A c \in Codes : Pending(c) = 0) =>
          \A c \in Codes : click_count[c] + dropped[c] = done[c]
    /\ (Quiescent /\ ~overlap) => \A c \in Codes : Pending(c) = sinceDrain[c]

C15_Witness ==
    /\ Quiescent /\ ~overlap /\ cycles = 1
    /\ dropped["a"] = 1 /\ click_count["a"] = 0 /\ click_count["b"] = 1
    /\ \A c \in Codes : Pending(c) = 0

\* C16: the aggregation loop never stops on a batch error. Whatever the
\* outcome of the drain, of the applies and of the clear, every started cycle
\* comes back to idle, and the ticks keep being served.
C16_LoopKeepsRunning ==
    /\ (sync.pc /= "idle") ~> (sync.pc = "idle")
    /\ <>(cycles = MaxCycles)

C16_Witness ==
    /\ sync.pc = "idle" /\ cycles = MaxCycles /\ fault = "lossy"
    /\ \E c \in Codes : dropped[c] > 0

\* C17: once shutdown is requested the aggregation task stops without
\* leaving a cycle half done: when the process has ended, the cycle in
\* progress, if any, has applied nothing yet.
C17_NoHalfDrainAtExit ==
    ~alive => (sync.pc \in {"idle", "scan", "get"} \/ sync.todo = DOMAIN sync.results)

\* The write of call t made code c active: the insert of CreateShortURL, the
\* Updates of a ToggleURLStatus that read an inactive row, the Updates of
\* BatchToggleURLs with active.
Reactivates(t, c) ==
    /\ c \in t.hit
    /\ \/ t.op = "create"
       \/ t.op = "toggle" /\ ~t.was
       \/ t.op = "batchtoggle" /\ t.active

\* The write of call t took code c out of service: it made an active row
\* inactive, or soft-deleted the row.
Deactivates(t, c) ==
    /\ c \in t.hit
    /\ \/ t.op = "update" /\ t.was /\ ~t.active
       \/ t.op = "toggle" /\ t.was
       \/ t.op = "batchtoggle" /\ ~t.active
       \/ t.op \in {"delete", "batchdelete", "cleanup"}

\* Call t is about to return nil, and every call into URLService so far ran
\* by itself.
ReturnsAlone(t) == t.pc = "ret" /\ ~t.err /\ ~svcOverlap

\* C18: reactivation publishes. When CreateShortURL, a ToggleURLStatus from
\* inactive to active or BatchToggleURLs with active=true returns after the
\* store took its write, the Local tier holds the record under its code with
\* IsActive true, and the call issued no DeleteURL.
C18_ReactivationPublishes ==
    \A t \in BagToSet(stask) : \A c \in Codes :
        (ReturnsAlone(t) /\ Reactivates(t, c)) =>
            /\ "del" \notin t.called
            /\ URLKey(c) \in DOMAIN memCache
            /\ memCache[URLKey(c)].IsActive

\* C19: deactivation, deletion and expiry invalidate. When UpdateURL with
\* active=false, a ToggleURLStatus from active to inactive, BatchToggleURLs
\* with active=false, DeleteURL, BatchDeleteURLs or CleanupExpiredURLs
\* returns, neither tier holds an entry for a code it took out of service
\* (the Remote tier having answered every call).
C19_DeactivationInvalidates ==
    \A t \in BagToSet(stask) : \A c \in Codes :
        (ReturnsAlone(t) /\ Deactivates(t, c) /\ ~t.remoteErr) =>
            /\ URLKey(c) \notin DOMAIN memCache
            /\ URLKey(c) \notin DOMAIN redisURL

\* C20: an update that leaves the record active republishes the persisted
\* row. An UpdateURL that ran by itself on a row that is active afterwards
\* returns with the row as it is in the store in the Local tier; and whatever
\* ran beside it, when its SetURL is done, ran alone on its code, and the row
\* was not written since the re-read, the Local entry is the row of the
\* store and not the struct read before the update.
C20_UpdateRepublishesRow ==
    /\ \A t \in BagToSet(stask) :
          (ReturnsAlone(t) /\ t.op = "update" /\ db[t.code].IsActive) =>
              /\ t.called = {"set"}
              /\ URLKey(t.code) \in DOMAIN memCache
              /\ memCache[URLKey(t.code)] = AsURL(db[t.code])
    /\ \A r \in BagToSet(ctask) :
          (/\ r.op = "set" /\ r.pc = "ret" /\ r.by.op = "update"
           /\ r.alone /\ r.clean
           /\ db[r.code].UpdatedAt = r.by.updatedURL.UpdatedAt) =>
              /\ URLKey(r.code) \in DOMAIN memCache
              /\ memCache[URLKey(r.code)] = AsURL(db[r.code])

C20_Witness ==
    \E r \in BagToSet(ctask) :
        /\ r.op = "set" /\ r.pc = "ret" /\ r.by.op = "update"
        /\ r.alone /\ r.clean
        /\ db[r.code].UpdatedAt = r.by.updatedURL.UpdatedAt
        /\ db[r.code].IsActive
        /\ AsURL(r.by.url) /= AsURL(db[r.code])

\* C21: write-through happens only after the store confirms the mutation.
\* A method whose store statement failed is at its return with the error and
\* has issued no SetURL and no DeleteURL, and no cache call in progress was
\* made by such a method.
C21_NoWriteThroughOnError ==
    /\ \A t \in BagToSet(stask) : t.err => (t.pc = "ret" /\ t.called = {})
    /\ \A r \in BagToSet(ctask) : ~r.by.err

C21_Witness ==
    \E t \in BagToSet(stask) :
        /\ t.err /\ t.pc = "ret" /\ t.op = "delete" /\ t.url /= NilRow
        /\ Live(t.code)
        /\ URLKey(t.code) \in DOMAIN memCache
        /\ URLKey(t.code) \in DOMAIN redisURL

\* C22: GetURLByShortCode returns a record only when the cached record is
\* there, active and not expired, and the negative result otherwise; a
\* Redirect that registered a click or answered 302 had such a record, and
\* one that had none answered 404.
C22_OnlyLiveRecordsRedirect ==
    \A t \in BagToSet(stask) :
        (t.op \in {"get", "redirect"} /\ t.pc \in {"reply", "ret"}) =>
            LET live == t.found /\ t.url.IsActive /\ ~t.expired IN
            /\ t.err <=> ~live
            /\ (t.called \cap {"click", "302"} /= {}) => live
            /\ (t.op = "redirect" /\ t.pc = "ret" /\ ~live) => t.called = {"404"}

C22_Witness ==
    \E t \in BagToSet(stask) :
        /\ t.op = "redirect" /\ t.pc = "ret"
        /\ t.found /\ t.url.IsActive /\ t.expired
        /\ t.called = {"404"}

\* C23: warm-up loads every live record. WarmupCache returns at once; when
\* its goroutine has finished, having run with no other call beside it, the
\* Local entry under the code of every row it read is a record equal to that
\* row, and so is the Remote entry where the Remote tier took every write.
C23_WarmupLoadsEachRecord ==
    /\ svcOps < MaxSvc => ENABLED WarmupCache
    /\ \A t \in BagToSet(stask) :
          (t.op = "warmup" /\ ReturnsAlone(t)) =>
              \A c \in DOMAIN t.rows :
                  /\ URLKey(c) \in DOMAIN memCache
                  /\ memCache[URLKey(c)] = AsURL(t.rows[c])
                  /\ (useRedis /\ ~t.remoteErr) =>
                        /\ URLKey(c) \in DOMAIN redisURL
                        /\ redisURL[URLKey(c)] = Marshal(AsURL(t.rows[c]))

C23_Witness ==
    \E t \in BagToSet(stask) :
        /\ t.op = "warmup" /\ ReturnsAlone(t)
        /\ DOMAIN t.rows = Codes
        /\ AsURL(t.rows["a"]) /= AsURL(t.rows["b"])

\* C24: on a Local miss with the Remote tier enabled and a Remote hit, GetURL
\* returns the Remote record as found and has put it in the Local tier, where
\* the next GetURL of the code finds it without a Remote query, for a GetURL
\* that ran alone on its code and whose entry was not overwritten, deleted
\* or expired since.
C24_RemoteHitRepopulatesLocal ==
    \A r \in BagToSet(ctask) :
        (r.op = "get" /\ r.pc = "ret" /\ r.saw = "redis") =>
            /\ useRedis /\ r.found /\ r.url /= NilURL
            /\ (r.clean /\ r.alone) =>
                  /\ URLKey(r.code) \in DOMAIN memCache
                  /\ memCache[URLKey(r.code)] = r.url

C24_Witness ==
    \E r \in BagToSet(ctask) :
        /\ r.op = "get" /\ r.pc = "ret" /\ r.saw = "redis" /\ r.clean /\ r.alone
        /\ ops = MaxOps

\* The goroutines of IncrementClick for code c that have had their Incr
\* answered without error and have not ended.
Incremented(c) == CopiesIn([pc |-> "expire", code |-> c, tmp |-> 0], inc)

\* No SyncClickCounts run has started, so no counter was cleared.
NeverDrained == cycles = 0 /\ sync.pc = "idle"

\* C25: each IncrementClick adds exactly 1 to exactly one tier. Before any
\* drain, and unless an Incr took effect while reporting an error, the
\* pending count of a code is the number of its goroutines that have ended
\* or have had their Incr answered - a failed Expire included; the Local
\* counter moves only when the Remote tier is disabled or failed, the Remote
\* counter only when it is enabled, and the Local increment is made with
\* memClickMutex held. In no case does a click add more than 2.
C25_OneClickOneTier ==
    /\ (NeverDrained /\ fault /= "lossy") =>
          \A c \in Codes : Pending(c) = done[c] + Incremented(c)
    /\ (NeverDrained /\ fault = "none" /\ useRedis) =>
          \A c \in Codes : memClickCounts[c] = 0
    /\ ~useRedis => \A c \in Codes : redisClicks[c] = 0
    /\ (\E r \in BagToSet(inc) : r.pc = "locked") => memClickMutex
    /\ NeverDrained => \A c \in Codes : Pending(c) <= 2 * calls

C25_Witness ==
    /\ NeverDrained /\ useRedis /\ fault = "fallback" /\ inc = EmptyBag
    /\ redisClicks["a"] = 1 /\ memClickCounts["a"] = 1 /\ done["a"] = 2

\* C26: on each tick SyncClickCounts adds each drained count to the
\* click_count of its own code. Whenever a click_count changes, the loop is
\* applying a drained entry of that code with a count above 0, the new value
\* is the old one plus that count, the entry leaves the work list, and no
\* other code's click_count changes; and a drain holds no entry with count 0.
C26_ApplyAddsTheCount ==
    [][/\ sync.pc = "apply" => \A c \in DOMAIN sync.results : sync.results[c] > 0
       /\ \A c \in Codes :
             click_count'[c] /= click_count[c] =>
                 /\ sync.pc = "apply" /\ c \in sync.todo
                 /\ sync.results[c] > 0
                 /\ click_count'[c] = click_count[c] + sync.results[c]
                 /\ sync'.todo = sync.todo \ {c}
                 /\ \A d \in Codes \ {c} : click_count'[d] = click_count[d]]_vars

C26_Witness ==
    /\ sync.pc = "apply" /\ sync.todo = {"b"} /\ cycles = 0
    /\ DOMAIN sync.results = {"a", "b"}
    /\ click_count["a"] = sync.results["a"] /\ click_count["b"] = 0

\* No task is at a call of the Remote tier or handling the answer of one,
\* and the Remote tier holds what it held at the start.
NoRemoteCall ==
    /\ \A r \in BagToSet(inc) : r.pc \in {"go", "locked"}
    /\ \A r \in BagToSet(ctask) : r.pc = "ret" /\ r.saw \in {"none", "memory"}
    /\ sync.pc \notin {"scan", "del"} /\ sync.keys = {}
    /\ redisURL = Empty
    /\ \A c \in Codes : redisClicks[c] = 0

\* C27: the tier selection is fixed for the process lifetime. useRedis is
\* what NewCacheManager made it - true only for a given address and a ping
\* that succeeded, false without failing otherwise - no step changes it, and
\* while it is false no operation of the manager makes a Remote call.
C27_TierSelectionFixed ==
    /\ [][useRedis' = useRedis]_vars
    /\ [](\A a \in Addrs, ok \in BOOLEAN :
             /\ NewCacheManager(a, ok) \in BOOLEAN
             /\ NewCacheManager(a, ok) <=> (a /= "" /\ ok))
    /\ [](~useRedis => NoRemoteCall)

C27_Witness ==
    /\ ~useRedis /\ cycles = 1 /\ sync.pc = "idle"
    /\ click_count["a"] = 1
    /\ URLKey("a") \in DOMAIN memCache

\* C28: the expiry of a cache entry counts from its last write (SetURL or
\* repopulation), never from a read: in each tier an entry is never present
\* once Expiry units have passed since it was last written, however often
\* GetURL was served from it, and an entry that is present always becomes a
\* miss.
C28_TTLCountsFromLastWrite ==
    /\ [](\A c \in Codes :
            /\ URLKey(c) \in DOMAIN memCache =>
                  timer.memAge[c] < Expiry /\ timer.mem[c] = Expiry - timer.memAge[c]
            /\ URLKey(c) \in DOMAIN redisURL =>
                  timer.redisAge[c] < Expiry /\ timer.redis[c] = Expiry - timer.redisAge[c])
    /\ \A c \in Codes :
          (URLKey(c) \in DOMAIN memCache) ~> (URLKey(c) \notin DOMAIN memCache)

\* A record was set, then served from the Local tier late in its life, and
\* is in neither tier now although nothing deleted it.
C28_Witness ==
    \E r \in BagToSet(ctask) :
        /\ r.op = "get" /\ r.pc = "ret" /\ r.saw = "memory"
        /\ ops = MaxOps /\ r.code \in everSet
        /\ \A q \in BagToSet(ctask) : q.op /= "del"
        /\ URLKey(r.code) \notin DOMAIN memCache
        /\ URLKey(r.code) \notin DOMAIN redisURL

\* The tasks inside a section guarded by memClickMutex, and the tasks that
\* have a request to the Remote tier in flight.
InCriticalSection ==
    BagCardinality([r \in {r \in BagToSet(inc) : r.pc = "locked"} |-> inc[r]])
    + BagCardinality([r \in {r \in BagToSet(reset) : r.pc = "locked"} |-> reset[r]])

RemoteInFlight ==
    \/ \E r \in BagToSet(inc) : (r.pc = "go" /\ useRedis) \/ r.pc = "expire"
    \/ \E r \in BagToSet(reset) : r.pc = "getdel"
    \/ sync.pc \in {"scan", "del"}
    \/ sync.pc = "get" /\ sync.keys /= {}

\* C29: no task holds memClickMutex across a call to the Remote tier: the
\* mutex is held exactly when one task is between its Lock and its Unlock,
\* and those sections (in incrementMemoryClick, GetAndResetClicks,
\* GetAllClickCounts, ClearClickCounts) lie after the task's Remote calls.
C29_NoLockAcrossRemoteCall ==
    /\ memClickMutex <=> InCriticalSection = 1
    /\ InCriticalSection <= 1

\* One task holds the mutex while two others wait for the Remote tier.
C29_Witness ==
    /\ memClickMutex /\ useRedis
    /\ \E r \in BagToSet(inc) : r.pc = "locked"
    /\ \E r \in BagToSet(reset) : r.pc = "getdel"
    /\ sync.pc = "scan"
    /\ RemoteInFlight

\* C30: at most one SyncClickCounts execution (drain, apply, clear) is in
\* progress at any instant, so the clear of one cycle never interleaves with
\* the drain of another.
C30_OneAggregationAtATime ==
    ~(sync.pc \notin {"idle", "returned"} /\ peer.pc /= "idle")

\* C31: a completed invalidation is not undone by a concurrent lookup: when
\* DeleteURL(code) is about to return with both tiers deleted and no SetURL,
\* DeleteURL or expiry for the code has happened since it was called, the
\* Local tier holds no entry for the code (a later GetURL consults it first
\* and would return found), whatever GetURL calls were in flight.
C31_DeleteNotUndoneByLookup ==
    \A r \in BagToSet(ctask) :
        (r.op = "del" /\ r.pc = "ret" /\ r.clean /\ r.saw /= "err") =>
            URLKey(r.code) \notin DOMAIN memCache

\* C32: no live stale record after a deactivation: when a call that took
\* code c out of service is about to return (the Remote tier having answered
\* its calls) and the row has not been made active again, the Local tier
\* holds no active record for c, so GetURLByShortCode returns none, whatever
\* UpdateURL, ToggleURLStatus, BatchToggleURLs or WarmupCache ran beside it.
C32_NoStaleLiveRecord ==
    \A t \in BagToSet(stask) : \A c \in Codes :
        (/\ t.pc = "ret" /\ ~t.err /\ ~t.remoteErr
         /\ Deactivates(t, c)
         /\ ~(Live(c) /\ db[c].IsActive)) =>
            ~(URLKey(c) \in DOMAIN memCache /\ memCache[URLKey(c)].IsActive)

\* C33: the expiry sweep invalidates exactly what it deactivates: when a
\* CleanupExpiredURLs that ran by itself is about to return (the Remote tier
\* having answered its calls), neither tier holds an entry for a code whose
\* is_active its Update set to false.
C33_SweepInvalidatesWhatItDeactivates ==
    \A t \in BagToSet(stask) :
        (ReturnsAlone(t) /\ t.op = "cleanup" /\ ~t.remoteErr) =>
            \A c \in t.hit :
                /\ URLKey(c) \notin DOMAIN memCache
                /\ URLKey(c) \notin DOMAIN redisURL

\* C34: lookups are served from the cache only. A GetURLByShortCode returns
\* a record exactly when GetURL found one, in the Local tier or, after a
\* Local miss, in the Remote tier, and that record is active and unexpired;
\* when GetURL found none it returns the negative result whatever the Record
\* Store holds for the code.
C34_LookupServedFromCacheOnly ==
    /\ \A t \in BagToSet(stask) :
          (t.op = "get" /\ t.pc = "ret") =>
              /\ ~t.err => (t.found /\ t.url /= NilURL /\ t.url.IsActive)
              /\ ~t.found => (t.err /\ t.url = NilURL)
    /\ \A r \in BagToSet(ctask) :
          (r.op = "get" /\ r.pc = "ret" /\ r.by.op = "get") =>
              /\ r.found <=> r.saw \in {"memory", "redis"}
              /\ r.saw = "redis" => useRedis

\* A lookup returned the negative result for a code whose row is active and
\* unexpired in the store: no tier held it.
C34_Witness ==
    \E t \in BagToSet(stask) :
        /\ t.op = "get" /\ t.pc = "ret" /\ t.err /\ ~t.found
        /\ Live(t.code) /\ db[t.code].IsActive /\ ~db[t.code].Expired
        /\ URLKey(t.code) \notin DOMAIN memCache
        /\ URLKey(t.code) \notin DOMAIN redisURL

====
